---- MODULE Spec2Model ----
(***************************************************************************)
(* Model of the lofi daemon's request machinery: the bounded priority      *)
(* queue (generation/queue.rs), the track cache (cache/tracks.rs), the     *)
(* JSON-RPC server loop with its generate handler (rpc/server.rs,          *)
(* rpc/methods.rs) and the threaded QueueProcessor (generation/queue.rs).  *)
(*                                                                         *)
(* Rust indices are 0-based and are kept 0-based in every value the code   *)
(* returns or stores (positions, queue_position); TLA+ sequences are       *)
(* 1-based, so the job at Rust index i is queue[i + 1].                    *)
(*                                                                         *)
(* Clock readings: GenerationJob::new derives job_id from the system clock *)
(* and the cache stamps entries with Instant::now().  The model takes      *)
(* successive readings to be strictly increasing, which is what the        *)
(* repository's own tests rely on (queue.rs tests compare positions of     *)
(* jobs created back to back; tracks.rs evict_lru_removes_oldest reads     *)
(* "first" right after writing "second").                                  *)
(***************************************************************************)
EXTENDS Integers, Sequences, FiniteSets, TLC

VARIABLES
    queue,       \* GenerationQueue.jobs, front first
    clock,       \* number of clock readings taken so far (job ids, instants)
    lastOp,      \* the call last made on a component that is driven on its
                 \* own (queue, cache, validate, generate_tokens), with its
                 \* locals while it runs and with what it returned
    lastPopped,  \* per priority, job_id of the last job pop_next returned
    cache,       \* TrackCache: [tracks, max_entries]
    accessed,    \* per track_id, the clock reading of its last put or get
    config,      \* DaemonConfig: [default_backend]
    models,      \* ServerState.models (LoadedModels): None or Some(backend)
    shutdown,    \* ServerState.shutdown flag
    pc,          \* where the server loop is within the current request
    cur,         \* locals of the handle_generate call in progress
    out,         \* lines written to stdout since the current line was read
    prev,        \* what the previous request was and how it ended
    requests,    \* number of input lines read so far
    files,       \* paths of the WAV files written
    job_tx,      \* QueueProcessor: QueueMessages sent and not yet received
    result_rx,   \* QueueProcessor: JobResults sent and not yet received
    worker,      \* the processor thread: where it is and the job it holds
    client,      \* the thread that owns the QueueProcessor
    events,      \* what process_fn and the worker have emitted, in order
    ahead,       \* pairs <<a, b>> of job ids: a was ahead of b in the queue
    mutex,       \* QueueProcessor.queue's Mutex: None or Some(holding thread)
    submitted    \* job ids for which QueueProcessor.submit has returned Ok

queueVars == <<queue, lastPopped>>
cacheVars == <<cache, accessed>>
serverVars == <<config, models, shutdown, pc, cur, out, prev, requests, files>>
processorVars == <<job_tx, result_rx, worker, client, events, ahead, mutex,
                   submitted>>
vars == <<queue, clock, lastOp, lastPopped, cache, accessed, config, models,
          shutdown, pc, cur, out, prev, requests, files, job_tx, result_rx,
          worker, client, events, ahead, mutex, submitted>>

----------------------------------------------------------------------------
\* Option<T>
None == <<>>
Some(x) == <<x>>

\* queue.rs: pub const MAX_QUEUE_SIZE: usize = 10
MAX_QUEUE_SIZE == 10

\* cache/tracks.rs: const DEFAULT_MAX_ENTRIES: usize = 100
DEFAULT_MAX_ENTRIES == 100

\* Number of jobs created in one behaviour of the queue specification.
MaxJobs == 12

\* The cache specification: capacities 0..MaxCapacity, track ids 1..MaxKeys,
\* at most MaxInstants readings of the clock.
MaxCapacity == 3
MaxKeys == 4
MaxInstants == 6

\* The server specification: at most MaxRequests lines are read; an explicit
\* inference_steps of MaxSteps; audio up to MaxExtraFrames frames longer than
\* asked for; a failing inference fails after one of FailAfter callbacks.
MaxRequests == 2
MaxSteps == 4
MaxExtraFrames == 1
FailAfter == {0, 2}

\* The processor specification: at most MaxSubmits jobs are submitted, and
\* process_fn reports progress at most MaxProgress times per job.
MaxSubmits == 3
MaxProgress == 1

\* The decoder specification: generate_tokens is asked for 1..MaxLen frames
\* of a decoder with 1..MaxLayers hidden layers.
MaxLen == 3
MaxLayers == 2

\* The diffusion specification: a scheduler is created with
\* 1..MaxInferenceSteps inference steps.
MaxInferenceSteps == 4

\* The PingPong specification: two schedulers of 1..MaxPingPongSteps steps.
MaxPingPongSteps == 2

JobPriority == {"Normal", "High"}

----------------------------------------------------------------------------
\* types/track.rs compute_track_id: the first 8 bytes of SHA-256 over
\* "{prompt}:{seed}:{duration_sec}:{model_version}" (methods.rs passes the
\* backend as a further field).  The digest is modelled as injective on the
\* formatted fields; duration is carried in hundredths of a second so that
\* the f32 values 10 and 10.02 format differently, as they do in Rust.
compute_track_id(backend, prompt, seed, duration_cs, model_version) ==
    <<backend, prompt, seed, duration_cs, model_version>>

\* types/job.rs GenerationJob::new: status Pending, no queue position, the
\* job_id taken from the clock reading `id`, track_id computed without a
\* backend field.
GenerationJobNew(id, prompt, duration_sec, seed, priority, model_version) ==
    [ job_id         |-> id,
      track_id       |-> compute_track_id("", prompt, seed, duration_sec * 100,
                                          model_version),
      prompt         |-> prompt,
      duration_sec   |-> duration_sec,
      seed           |-> seed,
      priority       |-> priority,
      status         |-> "Pending",
      queue_position |-> None ]

\* types/job.rs set_queued / set_generating
set_queued(job, position) ==
    [job EXCEPT !.status = "Queued", !.queue_position = Some(position)]

set_generating(job) ==
    [job EXCEPT !.status = "Generating", !.queue_position = None]

----------------------------------------------------------------------------
\* GenerationQueue (generation/queue.rs).  Each operation is a function of
\* the job sequence.

is_full_off_by_one(jobs) == Len(jobs) > MAX_QUEUE_SIZE

is_full(jobs) == Len(jobs) >= MAX_QUEUE_SIZE

update_positions_noop(jobs) == jobs

update_positions(jobs) ==
    [i \in 1..Len(jobs) |-> [jobs[i] EXCEPT !.queue_position = Some(i - 1)]]

\* .iter().position(|j| j.priority != High).unwrap_or(len), 0-based
high_insert_pos_front(jobs) == 0

high_insert_pos_back(jobs) == Len(jobs)

high_insert_pos(jobs) ==
    IF \E i \in 1..Len(jobs) : jobs[i].priority # "High"
    THEN (CHOOSE i \in 1..Len(jobs) :
              /\ jobs[i].priority # "High"
              /\ \A k \in 1..(i - 1) : jobs[k].priority = "High") - 1
    ELSE Len(jobs)

\* VecDeque::insert(pos, x), pos 0-based
InsertAt(jobs, pos, x) ==
    SubSeq(jobs, 1, pos) \o <<x>> \o SubSeq(jobs, pos + 1, Len(jobs))

\* add: [ok, value, jobs]; value is the position on Ok and current_size on
\* Err(QueueFullError).
add(jobs, job) ==
    IF is_full(jobs)
    THEN [ok |-> FALSE, value |-> Len(jobs), jobs |-> jobs]
    ELSE IF job.priority = "High"
         THEN LET insert_pos == high_insert_pos(jobs)
              IN  [ok    |-> TRUE,
                   value |-> insert_pos,
                   jobs  |-> update_positions(
                                 InsertAt(jobs, insert_pos,
                                          set_queued(job, insert_pos)))]
         ELSE LET pos == Len(jobs)
              IN  [ok    |-> TRUE,
                   value |-> pos,
                   jobs  |-> Append(jobs, set_queued(job, pos))]

\* pop_next: [job, jobs]; job is None on an empty queue.
pop_next_peek(jobs) ==
    IF jobs = <<>>
    THEN [job |-> None, jobs |-> jobs]
    ELSE [job |-> Some(Head(jobs)), jobs |-> jobs]

pop_next_back(jobs) ==
    IF jobs = <<>>
    THEN [job |-> None, jobs |-> jobs]
    ELSE [job  |-> Some(jobs[Len(jobs)]),
          jobs |-> update_positions(SubSeq(jobs, 1, Len(jobs) - 1))]

pop_next(jobs) ==
    IF jobs = <<>>
    THEN [job |-> None, jobs |-> jobs]
    ELSE [job |-> Some(Head(jobs)), jobs |-> update_positions(Tail(jobs))]

\* get_position: .iter().position(|j| j.job_id == job_id)
get_position(jobs, job_id) ==
    IF \E i \in 1..Len(jobs) : jobs[i].job_id = job_id
    THEN Some((CHOOSE i \in 1..Len(jobs) :
                  /\ jobs[i].job_id = job_id
                  /\ \A k \in 1..(i - 1) : jobs[k].job_id # job_id) - 1)
    ELSE None

----------------------------------------------------------------------------
\* TrackCache (cache/tracks.rs).  tracks is the HashMap: a function from the
\* track ids present to [track, last_accessed].

with_capacity(max_entries) ==
    [tracks |-> <<>>, max_entries |-> max_entries]

TrackCacheNew == with_capacity(DEFAULT_MAX_ENTRIES)

cache_len(c) == Cardinality(DOMAIN c.tracks)

contains(c, track_id) == track_id \in DOMAIN c.tracks

Without(tracks, track_id) ==
    [k \in DOMAIN tracks \ {track_id} |-> tracks[k]]

get_taking(c, track_id, now) ==
    IF contains(c, track_id)
    THEN [track |-> Some(c.tracks[track_id].track),
          cache |-> [c EXCEPT !.tracks = Without(c.tracks, track_id)]]
    ELSE [track |-> None, cache |-> c]

\* get: stamps the entry with Instant::now() on a hit.
get_no_touch(c, track_id, now) ==
    IF contains(c, track_id)
    THEN [track |-> Some(c.tracks[track_id].track), cache |-> c]
    ELSE [track |-> None, cache |-> c]

get(c, track_id, now) ==
    IF contains(c, track_id)
    THEN [track |-> Some(c.tracks[track_id].track),
          cache |-> [c EXCEPT !.tracks[track_id].last_accessed = now]]
    ELSE [track |-> None, cache |-> c]

\* evict_lru: removes the entry with the smallest last_accessed.
evict_newest(c) ==
    IF DOMAIN c.tracks = {}
    THEN [track |-> None, cache |-> c]
    ELSE LET newest_key ==
                 CHOOSE k \in DOMAIN c.tracks :
                     \A o \in DOMAIN c.tracks :
                         c.tracks[k].last_accessed >= c.tracks[o].last_accessed
         IN  [track |-> Some(c.tracks[newest_key].track),
              cache |-> [c EXCEPT !.tracks = Without(c.tracks, newest_key)]]

evict_lru(c) ==
    IF DOMAIN c.tracks = {}
    THEN [track |-> None, cache |-> c]
    ELSE LET oldest_key ==
                 CHOOSE k \in DOMAIN c.tracks :
                     \A o \in DOMAIN c.tracks :
                         c.tracks[k].last_accessed <= c.tracks[o].last_accessed
         IN  [track |-> Some(c.tracks[oldest_key].track),
              cache |-> [c EXCEPT !.tracks = Without(c.tracks, oldest_key)]]

put_evicts_known_key(c, track, now) ==
    LET c1 == IF cache_len(c) >= c.max_entries
              THEN evict_lru(c).cache
              ELSE c
        entry == [track |-> track, last_accessed |-> now]
    IN  [c1 EXCEPT !.tracks =
            [k \in DOMAIN c1.tracks \cup {track.track_id} |->
                IF k = track.track_id THEN entry ELSE c1.tracks[k]]]

\* put: evicts first when at capacity and the key is new, then inserts (or
\* overwrites) with last_accessed = Instant::now().
put(c, track, now) ==
    LET c1 == IF cache_len(c) >= c.max_entries /\ ~contains(c, track.track_id)
              THEN evict_lru(c).cache
              ELSE c
        entry == [track |-> track, last_accessed |-> now]
    IN  [c1 EXCEPT !.tracks =
            [k \in DOMAIN c1.tracks \cup {track.track_id} |->
                IF k = track.track_id THEN entry ELSE c1.tracks[k]]]

remove(c, track_id) ==
    IF contains(c, track_id)
    THEN [track |-> Some(c.tracks[track_id].track),
          cache |-> [c EXCEPT !.tracks = Without(c.tracks, track_id)]]
    ELSE [track |-> None, cache |-> c]

clear(c) == [c EXCEPT !.tracks = <<>>]

----------------------------------------------------------------------------
\* Backend (models/backend.rs)

Backend == {"musicgen", "ace_step"}

BackendDefault == "musicgen"

\* Backend::parse: lower-cases, replaces '-' by '_', then matches.
parse(s) ==
    CASE s \in {"musicgen", "music_gen", "music-gen", "MusicGen"} -> Some("musicgen")
      [] s \in {"acestep", "ace_step", "ace-step", "ACE-Step"}    -> Some("ace_step")
      [] OTHER                                                    -> None

min_duration_sec(backend) == 5

max_duration_sec(backend) == IF backend = "musicgen" THEN 120 ELSE 240

sample_rate(backend) == IF backend = "musicgen" THEN 32000 ELSE 48000

\* cli.rs: pub const TOKENS_PER_SECOND: usize = 50
TOKENS_PER_SECOND == 50

\* LoadedModels is None or Some(backend); backend() and version().  The
\* MusicGen version is what detect_model_version reports for the default
\* fp16 files; the ACE-Step string stands for whatever its models report.
loaded_backend(m) == m

version(m) ==
    IF m = None THEN None
    ELSE IF m[1] = "musicgen" THEN Some("musicgen-small-fp16-v1")
    ELSE Some("ace-step")

----------------------------------------------------------------------------
\* rpc/types.rs

Ok(x) == [ok |-> TRUE, body |-> x]
Err(e) == [ok |-> FALSE, body |-> e]

JsonRpcError(code, error_code, detail) ==
    [code |-> code, error_code |-> error_code, detail |-> detail]

parse_error               == JsonRpcError(-32700, "", 0)
invalid_request           == JsonRpcError(-32600, "", 0)
method_not_found          == JsonRpcError(-32601, "", 0)
invalid_params            == JsonRpcError(-32602, "", 0)

model_load_failed_as_download == JsonRpcError(-32002, "MODEL_DOWNLOAD_FAILED", 0)

model_load_failed         == JsonRpcError(-32001, "MODEL_LOAD_FAILED", 0)

model_download_failed     == JsonRpcError(-32002, "MODEL_DOWNLOAD_FAILED", 0)
model_inference_failed    == JsonRpcError(-32003, "MODEL_INFERENCE_FAILED", 0)
queue_full(current_size)  == JsonRpcError(-32004, "QUEUE_FULL", current_size)
invalid_duration_for_backend(duration) ==
    JsonRpcError(-32005, "INVALID_DURATION", duration)
invalid_prompt            == JsonRpcError(-32006, "INVALID_PROMPT", 0)
invalid_backend           == JsonRpcError(-32007, "INVALID_BACKEND", 0)
invalid_inference_steps(steps) ==
    JsonRpcError(-32009, "INVALID_INFERENCE_STEPS", steps)
invalid_guidance_scale(scale) ==
    JsonRpcError(-32010, "INVALID_GUIDANCE_SCALE", scale)
invalid_scheduler         == JsonRpcError(-32011, "INVALID_SCHEDULER", 0)

\* Prompts are named by their text; prompt_len is String::len of that text.
LongPrompt == "x repeated 1001 times"

\* Further prompts of the validation specification: one ASCII character,
\* 1000 ASCII characters, and 600 two-byte characters.
OneCharPrompt == "x"
Prompt1000 == "x repeated 1000 times"
AccentedPrompt == "e-acute repeated 600 times"

\* str::len: the length of the prompt's UTF-8 encoding in bytes
prompt_len(prompt) ==
    CASE prompt = ""             -> 0
      [] prompt = OneCharPrompt  -> 1
      [] prompt = Prompt1000     -> 1000
      [] prompt = LongPrompt     -> 1001
      [] prompt = AccentedPrompt -> 1200
      [] OTHER                   -> 10

\* GenerateParams as deserialized; well_formed is FALSE when serde rejects
\* the params value (e.g. no prompt field).  guidance_scale is carried in
\* tenths (150 is 15.0).
GenerateParams(well_formed, prompt, duration_sec, seed, priority, backend, steps, scheduler, scale) ==
    [ well_formed     |-> well_formed,
      prompt          |-> prompt,
      duration_sec    |-> duration_sec,
      seed            |-> seed,
      priority        |-> priority,
      backend         |-> backend,
      inference_steps |-> steps,
      scheduler       |-> scheduler,
      guidance_scale  |-> scale ]

resolve_backend(params, default) ==
    IF params.backend = None
    THEN Ok(default)
    ELSE IF parse(params.backend[1]) = None
         THEN Err(invalid_backend)
         ELSE Ok(parse(params.backend[1])[1])

\* str::to_lowercase on the scheduler names the model sends
to_lowercase(s) ==
    CASE s = "Euler"    -> "euler"
      [] s = "Heun"     -> "heun"
      [] s = "PingPong" -> "pingpong"
      [] OTHER          -> s

validate_prompt_only(params, backend) ==
    IF params.prompt = "" THEN Err(invalid_prompt) ELSE Ok(None)

validate(params, backend) ==
    IF params.prompt = "" THEN Err(invalid_prompt)
    ELSE IF prompt_len(params.prompt) > 1000 THEN Err(invalid_prompt)
    ELSE IF \/ params.duration_sec < min_duration_sec(backend)
            \/ params.duration_sec > max_duration_sec(backend)
         THEN Err(invalid_duration_for_backend(params.duration_sec))
    ELSE IF /\ backend = "ace_step"
            /\ params.inference_steps # None
            /\ (params.inference_steps[1] < 1 \/ params.inference_steps[1] > 200)
         THEN Err(invalid_inference_steps(params.inference_steps[1]))
    ELSE IF /\ backend = "ace_step"
            /\ params.guidance_scale # None
            /\ (params.guidance_scale[1] < 10 \/ params.guidance_scale[1] > 300)
         THEN Err(invalid_guidance_scale(params.guidance_scale[1]))
    ELSE IF /\ backend = "ace_step"
            /\ params.scheduler # None
            /\ to_lowercase(params.scheduler[1]) \notin {"euler", "heun", "pingpong"}
         THEN Err(invalid_scheduler)
    ELSE Ok(None)

GenerateResult_always_generating(track_id, status, position, seed, backend) ==
    [ track_id |-> track_id, status |-> "generating", position |-> position,
      seed |-> seed, backend |-> backend ]

GenerateResult(track_id, status, position, seed, backend) ==
    [ track_id |-> track_id, status |-> status, position |-> position,
      seed |-> seed, backend |-> backend ]

\* Lines on stdout: a response to a request id, or a notification.
Response_null_id(id, result) ==
    [kind |-> "response", id |-> None, ok |-> result.ok, body |-> result.body]

Response(id, result) ==
    [kind |-> "response", id |-> id, ok |-> result.ok, body |-> result.body]

Notification(method, params) ==
    [kind |-> "notification", method |-> method, params |-> params]

----------------------------------------------------------------------------
\* types/track.rs Track::new: the track_id is computed from the arguments,
\* duration_sec among them (methods.rs passes the backend as a further
\* argument and reads it back as track.backend).
TrackNew(path, prompt, duration_cs, seed, model_version, backend) ==
    [ track_id      |-> compute_track_id(backend, prompt, seed, duration_cs,
                                         model_version),
      path          |-> path,
      prompt        |-> prompt,
      duration_cs   |-> duration_cs,
      sample_rate   |-> 32000,
      seed          |-> seed,
      model_version |-> model_version,
      backend       |-> backend ]

\* cache_dir.join(format!("{}.wav", track_id))
output_path(track_id) == [dir |-> "cache", stem |-> track_id, ext |-> "wav"]

\* audio/wav.rs write_wav: [ok, files].  files are the paths that hold a
\* complete WAV file; a write that fails returns Err and whatever it left
\* at the path is not one.
write_wav_ignoring_error(disk, path, wav_ok) ==
    [ok |-> TRUE, files |-> IF wav_ok THEN disk \cup {path} ELSE disk]

write_wav(disk, path, wav_ok) ==
    [ok |-> wav_ok, files |-> IF wav_ok THEN disk \cup {path} ELSE disk]

Min(a, b) == IF a <= b THEN a ELSE b

\* The (current, total) pairs the backend hands to on_progress during one
\* generation.  MusicGen (pipeline.rs) calls it once, after generate_tokens,
\* with the number of frames returned, which is max_tokens + 1 (decoder.rs).
\* ACE-Step (generate.rs, default scheduler) calls it at each user step
\* 0..steps-1 and once more with (steps, steps).  The Heun scheduler makes
\* the call for user step 0 twice; the second is below the throttle's next
\* band and the notifications written are the same.
progress_calls(backend, duration_sec, inference_steps) ==
    IF backend = "musicgen"
    THEN LET max_tokens == duration_sec * TOKENS_PER_SECOND
         IN  << <<max_tokens + 1, max_tokens>> >>
    ELSE LET steps == IF inference_steps = None THEN 60 ELSE inference_steps[1]
         IN  [i \in 1..(steps + 1) |-> <<i - 1, steps>>]

\* The on_progress closure of handle_generate / process_next_job applied to
\* a sequence of calls, last being the closure's last_percent (u8): the
\* generation_progress notifications it sends, in order.
on_progress_every_call(calls, last, track_id) ==
    [ i \in 1..Len(calls) |->
        Notification("generation_progress",
            [ track_id         |-> track_id,
              percent          |-> IF calls[i][1] = calls[i][2] THEN 100
                                   ELSE Min((calls[i][1] * 100) \div calls[i][2], 99),
              tokens_generated |-> calls[i][1],
              tokens_estimated |-> calls[i][2] ]) ]

RECURSIVE on_progress(_, _, _)
on_progress(calls, last, track_id) ==
    IF calls = <<>> THEN <<>>
    ELSE LET current == Head(calls)[1]
             total   == Head(calls)[2]
         IN  IF total = 0
             THEN on_progress(Tail(calls), last, track_id)
             ELSE LET percent == Min(((current * 100) \div total) % 256, 99)
                      next_threshold == ((last \div 5 + 1) * 5) % 256
                  IN  IF percent >= next_threshold \/ current = total
                      THEN << Notification("generation_progress",
                                  [ track_id         |-> track_id,
                                    percent          |-> IF current = total
                                                         THEN 100 ELSE percent,
                                    tokens_generated |-> current,
                                    tokens_estimated |-> total ]) >>
                           \o on_progress(Tail(calls), (percent \div 5) * 5,
                                          track_id)
                      ELSE on_progress(Tail(calls), last, track_id)

generation_complete(track_id, path, duration_cs, rate, prompt, seed, time, version_, backend) ==
    Notification("generation_complete",
        [ track_id        |-> track_id,
          path            |-> path,
          duration_cs     |-> duration_cs,
          sample_rate     |-> rate,
          prompt          |-> prompt,
          seed            |-> seed,
          generation_time |-> time,
          model_version   |-> version_,
          backend         |-> backend ])

generation_error_as_progress(track_id) ==
    Notification("generation_progress",
        [track_id |-> track_id, percent |-> 0])

generation_error(track_id) ==
    Notification("generation_error",
        [track_id |-> track_id, code |-> "MODEL_INFERENCE_FAILED"])

----------------------------------------------------------------------------
\* QueueProcessor::new (generation/queue.rs): two empty channels, an empty
\* shared queue, the processor thread waiting in recv.
Thread(at, job) == [pc |-> at, job |-> job, progress |-> 0]

ProcessorNew ==
    /\ job_tx = <<>>
    /\ result_rx = <<>>
    /\ worker = Thread("recv", None)
    /\ client = Thread("idle", None)
    /\ events = <<>>
    /\ ahead = {}
    /\ mutex = None
    /\ submitted = {}

\* The queue, cache and server specifications start no processor.
ProcessorUnused == ProcessorNew

----------------------------------------------------------------------------
\* The server: run_server (rpc/server.rs) reading request lines and, for
\* each, running handle_request (rpc/methods.rs) to its end before writing
\* the response.  pc follows the control flow of one request:
\*   "read" -> ["ensure" -> ["set_models"] -> "lookup" -> ["generate" -> "next_job"]] -> "respond"

Prompts == {"", "jazz piano"}
Durations == {10, 130}
Seeds == {None, Some(42)}
RandomSeeds == {7}
BackendParams == {None, Some("musicgen"), Some("ace-step"), Some("bogus")}
StepParams == {None, Some(0), Some(MaxSteps)}
SchedulerParams == {None, Some("Heun"), Some("bogus")}
ScaleParams == {None, Some(5)}

\* <<inference_steps, scheduler, guidance_scale>>: at most one of the three
\* ACE-Step parameters is given in a request.
AceParams ==
    { t \in StepParams \X SchedulerParams \X ScaleParams :
        Cardinality({i \in 1..3 : t[i] # None}) <= 1 }

NoParams == GenerateParams(FALSE, "", 0, None, "Normal", None, None, None, None)

GenerateParamsSet ==
    {NoParams} \cup
    { GenerateParams(TRUE, p, d, s, pr, b, t[1], t[2], t[3]) :
        p \in Prompts, d \in Durations, s \in Seeds, pr \in JobPriority,
        b \in BackendParams, t \in AceParams }

\* What a line of stdin can be: blank, not a request object, a request
\* object with a wrong "jsonrpc" (for some method, params absent), or a
\* request for some method.
Line(kind, method, params) == [kind |-> kind, method |-> method, params |-> params]

Lines ==
    { Line(k, "", NoParams) : k \in {"empty", "garbage"} }
    \cup { Line("bad_version", m, NoParams) :
             m \in {"shutdown", "generate", "nonexistent"} }
    \cup { Line("request", m, NoParams) :
             m \in {"ping", "shutdown", "get_backends", "nonexistent"} }
    \cup { Line("request", "generate", p) : p \in GenerateParamsSet }

CurIdle ==
    [ id          |-> None,
      is_generate |-> FALSE,
      params      |-> NoParams,
      backend     |-> BackendDefault,
      seed        |-> 0,
      result      |-> Err(parse_error),
      looked_up   |-> FALSE,
      hit         |-> FALSE,
      job         |-> None,
      track_id    |-> None,
      initial     |-> FALSE,
      completed   |-> FALSE,
      load        |-> None ]

NoPrev == [key |-> None, completed |-> FALSE, track_id |-> None]

\* lastOp before any call on the queue has been recorded
NoOp == [op |-> "none", priority |-> "Normal", job_id |-> 0, ok |-> TRUE,
         value |-> 0, len_before |-> 0]

\* ServerState::new(DaemonConfig::default()) and an untouched stdout.
ServerNew ==
    /\ config = [default_backend |-> BackendDefault]
    /\ models = None
    /\ shutdown = FALSE
    /\ pc = "read"
    /\ cur = CurIdle
    /\ out = <<>>
    /\ prev = NoPrev
    /\ requests = 0
    /\ files = {}

\* The queue and cache specifications do not run the server.
ServerUnused == ServerNew

Init ==
    /\ ServerNew
    /\ queue = <<>>
    /\ cache = TrackCacheNew
    /\ clock = 0
    /\ lastOp = NoOp
    /\ lastPopped = [p \in JobPriority |-> 0]
    /\ accessed = <<>>
    /\ ProcessorUnused

\* handle_generate up to the queue-full check (methods.rs 54-66)
admit(params) ==
    IF ~params.well_formed THEN Err(invalid_params)
    ELSE LET rb == resolve_backend(params, config.default_backend)
         IN  IF ~rb.ok THEN rb
             ELSE IF ~validate(params, rb.body).ok THEN validate(params, rb.body)
             ELSE IF is_full(queue) THEN Err(queue_full(Len(queue)))
             ELSE rb

\* process_request / handle_request for everything that is answered without
\* touching the models: [result, shutdown]
handle_simple_method_first(line) ==
    IF line.kind = "garbage" THEN Err(parse_error)
    ELSE IF line.method = "ping" THEN Ok([status |-> "ok"])
    ELSE IF line.method = "shutdown" THEN Ok([status |-> "shutting_down"])
    ELSE IF line.kind = "bad_version" THEN Err(invalid_request)
    ELSE Err(method_not_found)

handle_simple(line) ==
    IF line.kind = "garbage" THEN Err(parse_error)
    ELSE IF line.kind = "bad_version" THEN Err(invalid_request)
    ELSE IF line.method = "ping" THEN Ok([status |-> "ok"])
    ELSE IF line.method = "shutdown" THEN Ok([status |-> "shutting_down"])
    ELSE IF line.method = "get_backends"
         THEN Ok([ default_backend |-> config.default_backend,
                   version         |-> version(models) ])
    ELSE Err(method_not_found)

Respond(c, result) ==
    /\ cur' = [c EXCEPT !.result = result]
    /\ pc' = "respond"

\* run_server reads one line and dispatches it.  A blank line is skipped; a
\* generate request that passes validation resolves its seed and goes on to
\* the models; everything else has its result at once.
ReadRequest(line, limit) ==
    /\ pc = "read"
    /\ requests < limit
    /\ requests' = requests + 1
    /\ out' = <<>>
    /\ shutdown' = (shutdown \/ (line.kind = "request" /\ line.method = "shutdown"))
    /\ LET c == [CurIdle EXCEPT !.id = IF line.kind = "garbage" THEN None
                                      ELSE Some(requests + 1)]
       IN  IF line.kind = "empty"
           THEN /\ pc' = "read"
                /\ cur' = CurIdle
           ELSE IF line.kind = "request" /\ line.method = "generate"
           THEN LET a == admit(line.params)
                IN  IF ~a.ok
                    THEN Respond([c EXCEPT !.is_generate = TRUE,
                                           !.params = line.params], a)
                    ELSE \E seed \in IF line.params.seed = None
                                     THEN RandomSeeds
                                     ELSE {line.params.seed[1]} :
                            /\ cur' = [c EXCEPT !.is_generate = TRUE,
                                                !.params = line.params,
                                                !.backend = a.body,
                                                !.seed = seed]
                            /\ pc' = "ensure"
           ELSE Respond(c, handle_simple(line))
    /\ UNCHANGED <<queue, clock, lastOp, lastPopped, cache, accessed, config,
                   models, prev, files,
                   processorVars>>

ReadLine(line) == ReadRequest(line, MaxRequests)

\* stdin reaches end of file: the loop ends.
Eof ==
    /\ pc = "read"
    /\ pc' = "stopped"
    /\ UNCHANGED <<queue, clock, lastOp, lastPopped, cache, accessed, config,
                   models, shutdown, cur, out, prev, requests, files,
                   processorVars>>

\* methods.rs 72-99: the model files are ensured, and the backend is loaded
\* when it is not the one already loaded.  Whether the download and the load
\* succeed is for the environment to say.
\* cur.load is the value of load_backend(..) that the match at line 95 looks
\* at: None while load_backend has not been called, Some(Ok(bundle)) while
\* the new bundle is a local that set_models has not yet been given, and
\* Some(Err(..)) when the load failed.  state.models is not passed to
\* load_backend and is not assigned before it has returned.
load_backend(backend, load_ok) ==
    IF load_ok THEN Ok(backend) ELSE Err(model_load_failed)

EnsureModels(download_ok, load_ok) ==
    /\ pc = "ensure"
    /\ IF ~download_ok
       THEN Respond(cur, Err(model_download_failed))
       ELSE IF loaded_backend(models) # Some(cur.backend)
       THEN LET loaded == load_backend(cur.backend, load_ok)
            IN  IF loaded.ok
                THEN /\ cur' = [cur EXCEPT !.load = Some(loaded)]
                     /\ pc' = "set_models"
                ELSE Respond([cur EXCEPT !.load = Some(loaded)], loaded)
       ELSE /\ pc' = "lookup"
            /\ UNCHANGED cur
    /\ UNCHANGED <<queue, clock, lastOp, lastPopped, cache, accessed, config,
                   models, shutdown, out, prev, requests, files,
                   processorVars>>

\* server.rs 40-43: the assignment moves the new bundle into the slot and
\* drops the value the slot held.
set_models(loaded) == Some(loaded)

SetModels ==
    /\ pc = "set_models"
    /\ models' = set_models(cur.load[1].body)
    /\ cur' = [cur EXCEPT !.load = None]
    /\ pc' = "lookup"
    /\ UNCHANGED <<queue, clock, lastOp, lastPopped, cache, accessed, config,
                   shutdown, out, prev, requests, files,
                   processorVars>>

unwrap_or(opt, default) == IF opt = None THEN default ELSE opt[1]

\* methods.rs 101-189: fingerprint, cache lookup, and on a miss the job is
\* created, added to the queue and, at position 0, popped again to be
\* generated now.
LookupOrAdmit ==
    /\ pc = "lookup"
    /\ LET params        == cur.params
           model_version == unwrap_or(version(models), "unknown")
           track_id      == compute_track_id(cur.backend, params.prompt, cur.seed,
                                             params.duration_sec * 100,
                                             model_version)
           now           == clock + 1
           looked        == get(cache, track_id, now)
           c             == [cur EXCEPT !.looked_up = TRUE, !.track_id = track_id]
       IN  /\ clock' = now
           /\ IF looked.track # None
              THEN LET track == looked.track[1]
                   IN  /\ cache' = looked.cache
                       /\ out' = Append(out,
                              generation_complete(track.track_id, track.path,
                                  track.duration_cs, track.sample_rate,
                                  track.prompt, track.seed, "zero",
                                  track.model_version, track.backend))
                       /\ Respond([c EXCEPT !.hit = TRUE],
                              Ok(GenerateResult(track.track_id, "complete", 0,
                                                cur.seed, cur.backend)))
                       /\ UNCHANGED queue
              ELSE LET job   == GenerationJobNew(now, params.prompt,
                                    params.duration_sec, cur.seed,
                                    params.priority, model_version)
                       added == add(queue, job)
                   IN  /\ UNCHANGED <<cache, out>>
                       /\ IF ~added.ok
                          THEN /\ Respond(c, Err(queue_full(added.value)))
                               /\ UNCHANGED queue
                          ELSE IF added.value = 0
                          THEN LET popped == pop_next(added.jobs)
                               IN  /\ queue' = popped.jobs
                                   /\ cur' = [c EXCEPT
                                        !.job = Some(set_generating(popped.job[1])),
                                        !.initial = TRUE,
                                        !.result = Ok(GenerateResult(track_id,
                                            "generating", 0, cur.seed,
                                            cur.backend))]
                                   /\ pc' = "generate"
                          ELSE /\ queue' = added.jobs
                               /\ Respond(c, Ok(GenerateResult(track_id, "queued",
                                      added.value, cur.seed, cur.backend)))
    /\ UNCHANGED <<lastOp, lastPopped, accessed, config, models, shutdown,
                   prev, requests, files,
                   processorVars>>

\* One call of state.models.generate with what follows it (methods.rs
\* 191-303 for the request's own job, 320-436 for a job taken from the
\* queue).  The environment decides whether inference succeeds (and, if
\* not, after how many progress callbacks), how much audio comes back and
\* whether the WAV file can be written.  extra counts the 20 ms frames by
\* which the audio exceeds the requested duration.
Generate(infer_ok, fail_after, extra, wav_ok) ==
    /\ pc = "generate"
    /\ LET job           == cur.job[1]
           track_id      == IF cur.initial THEN cur.track_id ELSE job.track_id
           steps         == IF cur.initial THEN cur.params.inference_steps
                            ELSE None
           model_version == unwrap_or(version(models), "unknown")
           calls         == progress_calls(cur.backend, job.duration_sec, steps)
           made          == IF infer_ok THEN calls
                            ELSE SubSeq(calls, 1, Min(fail_after, Len(calls)))
           progress      == on_progress(made, 0, track_id)
           actual_cs     == job.duration_sec * 100 + 2 * extra
           path          == output_path(track_id)
           track         == TrackNew(path, job.prompt, actual_cs, job.seed,
                                     model_version, cur.backend)
           written       == write_wav(files, path, wav_ok)
       IN  IF infer_ok /\ written.ok
           THEN /\ files' = written.files
                /\ clock' = clock + 1
                /\ cache' = put(cache, track, clock + 1)
                /\ out' = out \o progress \o
                          << generation_complete(track_id, path, actual_cs,
                                 sample_rate(cur.backend), job.prompt, job.seed,
                                 "measured", model_version, cur.backend) >>
                /\ cur' = [cur EXCEPT !.completed = @ \/ cur.initial]
                /\ pc' = "next_job"
           ELSE /\ out' = out \o progress \o <<generation_error(track_id)>>
                /\ UNCHANGED <<files, clock, cache>>
                /\ IF cur.initial
                   THEN /\ cur' = [cur EXCEPT
                                      !.result = Err(model_inference_failed)]
                        /\ pc' = IF infer_ok THEN "respond" ELSE "next_job"
                   ELSE /\ UNCHANGED cur
                        /\ pc' = "next_job"
    /\ UNCHANGED <<queue, lastOp, lastPopped, accessed, config, models,
                   shutdown, prev, requests,
                   processorVars>>

\* process_next_job: pops the next job, if any, and generates it; with an
\* empty queue the handler returns.
ProcessNextJob ==
    /\ pc = "next_job"
    /\ LET popped == pop_next(queue)
       IN  /\ queue' = popped.jobs
           /\ IF popped.job = None
              THEN /\ pc' = "respond"
                   /\ UNCHANGED cur
              ELSE /\ pc' = "generate"
                   /\ cur' = [cur EXCEPT
                                 !.job = Some(set_generating(popped.job[1])),
                                 !.initial = FALSE]
    /\ UNCHANGED <<clock, lastOp, lastPopped, cache, accessed, config, models,
                   shutdown, out, prev, requests, files,
                   processorVars>>

\* ServerState::is_shutdown
is_shutdown_never(flag) == FALSE

is_shutdown(flag) == flag

\* run_server writes the response of the request just handled, then stops
\* if shutdown was requested.
WriteResponse ==
    /\ pc = "respond"
    /\ out' = Append(out, Response(cur.id, cur.result))
    /\ prev' = [ key       |-> IF cur.looked_up
                               THEN Some(<<cur.params.prompt, cur.seed,
                                           cur.params.duration_sec, cur.backend>>)
                               ELSE None,
                 completed |-> cur.completed,
                 track_id  |-> cur.track_id ]
    /\ cur' = CurIdle
    /\ pc' = IF is_shutdown(shutdown) THEN "stopped" ELSE "read"
    /\ UNCHANGED <<queue, clock, lastOp, lastPopped, cache, accessed, config,
                   models, shutdown, requests, files,
                   processorVars>>

Next ==
    \/ \E line \in Lines : ReadLine(line)
    \/ Eof
    \/ \E download_ok \in BOOLEAN, load_ok \in BOOLEAN :
           EnsureModels(download_ok, load_ok)
    \/ SetModels
    \/ LookupOrAdmit
    \/ \E infer_ok \in BOOLEAN, fail_after \in FailAfter,
          extra \in 0..MaxExtraFrames, wav_ok \in BOOLEAN :
           Generate(infer_ok, fail_after, extra, wav_ok)
    \/ ProcessNextJob
    \/ WriteResponse

Spec == Init /\ [][Next]_vars

\* A client that writes MAX_QUEUE_SIZE + 1 generate requests to stdin one
\* after the other without waiting for an answer: the lines wait in the pipe
\* and run_server reads each when it has answered the one before.  The
\* requests differ in their seed, so none is served from the cache.
BurstSize == MAX_QUEUE_SIZE + 1

BurstLine(n, priority) ==
    Line("request", "generate",
         GenerateParams(TRUE, "jazz piano", 10, Some(n), priority, None, None, None, None))

ReadBurst(priority) == ReadRequest(BurstLine(requests + 1, priority), BurstSize)

NextBurst ==
    \/ \E priority \in JobPriority : ReadBurst(priority)
    \/ \E load_ok \in BOOLEAN : EnsureModels(TRUE, load_ok)
    \/ SetModels
    \/ LookupOrAdmit
    \/ \E infer_ok \in BOOLEAN : Generate(infer_ok, 0, 0, TRUE)
    \/ ProcessNextJob
    \/ WriteResponse

SpecBurst == Init /\ [][NextBurst]_vars

IsNotification(line, method) ==
    line.kind = "notification" /\ line.method = method

IsProgress(line) == IsNotification(line, "generation_progress")

IsTerminal(line) ==
    \/ IsNotification(line, "generation_complete")
    \/ IsNotification(line, "generation_error")

\* The request being handled got as far as the cache lookup and has the
\* prompt, seed, duration_sec and backend of the request before it, which
\* completed its generation.
RepeatsCompletedRequest ==
    /\ cur.looked_up
    /\ prev.completed
    /\ prev.key = Some(<<cur.params.prompt, cur.seed, cur.params.duration_sec,
                         cur.backend>>)

\* C7: after a generate request has completed successfully, an immediately
\* following generate request with the same prompt, seed, duration_sec and
\* backend is answered from the cache: status complete, the same track_id,
\* and no generation is started (so no progress is reported).
C7_RepeatAnsweredFromCache ==
    RepeatsCompletedRequest =>
        /\ cur.hit
        /\ pc = "respond"
        /\ cur.result.ok
        /\ cur.result.body.status = "complete"
        /\ cur.result.body.track_id = prev.track_id
        /\ \A i \in 1..Len(out) : ~IsProgress(out[i])

\* C8: for every job that completes, one track_id is the value in the
\* generate response, the track_id of its progress and completion
\* notifications, the key of its Track in the cache and the stem of its WAV
\* file name.  A completed job is seen in out as a generation_complete
\* notification with a measured generation time.
C8_OneTrackIdEverywhere ==
    \A i \in 1..Len(out) :
        (IsNotification(out[i], "generation_complete")
         /\ out[i].params.generation_time = "measured") =>
            LET track_id == out[i].params.track_id
            IN  /\ out[i].params.path.stem = track_id
                /\ out[i].params.path \in files
                /\ \A j \in 1..(i - 1) :
                       IsProgress(out[j]) => out[j].params.track_id = track_id
                /\ \A j \in 1..Len(out) :
                       (out[j].kind = "response" /\ out[j].ok) =>
                           out[j].body.track_id = track_id
                /\ contains(cache, track_id)
                /\ cache.tracks[track_id].track.path = out[i].params.path

\* C9: for every generate request that starts a job, each
\* generation_progress notification of that job is written after the
\* response to that request and before the job's terminal notification.
\* (out holds what was written since the request line was read.)
C9_ProgressAfterResponse ==
    \A i \in 1..Len(out) :
        IsProgress(out[i]) =>
            /\ \E j \in 1..(i - 1) : out[j].kind = "response"
            /\ \A j \in 1..(i - 1) :
                   ~(IsTerminal(out[j])
                     /\ out[j].params.track_id = out[i].params.track_id)

\* out[i] is a generation_progress notification of the job track_id
IsProgressOf(i, track_id) ==
    IsProgress(out[i]) /\ out[i].params.track_id = track_id

\* out[i] reports that a job was generated (not served from the cache)
IsGenerated(i) ==
    /\ IsNotification(out[i], "generation_complete")
    /\ out[i].params.generation_time = "measured"

\* C12: for any single job, the percent values of its generation_progress
\* notifications are non-decreasing, every value before the last lies in
\* 0..99, and the sequence of a job that completes ends with exactly one
\* value 100.
C12_ProgressMonotoneEndsAt100 ==
    /\ \A i \in 1..Len(out) :
           IsProgress(out[i]) =>
               /\ out[i].params.percent \in 0..100
               /\ \A j \in 1..(i - 1) :
                      IsProgressOf(j, out[i].params.track_id) =>
                          /\ out[j].params.percent <= out[i].params.percent
                          /\ out[j].params.percent \in 0..99
    /\ \A k \in 1..Len(out) :
           IsGenerated(k) =>
               \E i \in 1..(k - 1) :
                   /\ IsProgressOf(i, out[k].params.track_id)
                   /\ out[i].params.percent = 100

\* the progress notifications of the same job written before out[i]
EarlierProgress(i) ==
    { j \in 1..(i - 1) : IsProgressOf(j, out[i].params.track_id) }

\* C13: a generation_progress notification is emitted only when
\* p = min(floor(100 * current / total), 99) has reached the next multiple
\* of 5 above the last emitted band, or when current = total (then it
\* carries 100); so the notifications of a job that are not the final one
\* lie in strictly increasing 5-percent bands, and a job emits at most 20.
C13_ThrottleBands ==
    \A i \in 1..Len(out) :
        IsProgress(out[i]) =>
            LET current == out[i].params.tokens_generated
                total   == out[i].params.tokens_estimated
                p       == Min((100 * current) \div total, 99)
            IN  /\ IF current = total
                   THEN out[i].params.percent = 100
                   ELSE /\ out[i].params.percent = p
                        /\ p >= 5
                        /\ \A j \in EarlierProgress(i) :
                               out[j].params.percent \div 5 < p \div 5
                /\ Cardinality(EarlierProgress(i)) + 1 <= 20

\* A job has emitted twenty notifications, the last of them final.
C13_Witness ==
    \E i \in 1..Len(out) :
        /\ IsProgress(out[i])
        /\ out[i].params.percent = 100
        /\ Cardinality(EarlierProgress(i)) = 19

\* The six validation errors of a generate request.
ValidationCodes == {-32007, -32006, -32005, -32009, -32010, -32011}

\* What the protocol rejects: an unknown backend name, an empty or too long
\* prompt, a duration outside the backend's range and, for ACE-Step, steps
\* outside 1..200, a guidance scale outside 1.0..30.0 or an unknown scheduler.
FailsValidation(params) ==
    /\ params.well_formed
    /\ \/ params.backend \notin {None, Some("musicgen"), Some("ace-step")}
       \/ params.prompt \in {"", LongPrompt}
       \/ LET ace == IF params.backend = None
                     THEN config.default_backend = "ace_step"
                     ELSE params.backend = Some("ace-step")
          IN  \/ ~ace /\ (params.duration_sec < 5 \/ params.duration_sec > 120)
              \/ ace /\ (params.duration_sec < 5 \/ params.duration_sec > 240)
              \/ ace /\ params.inference_steps # None
                     /\ params.inference_steps[1] \notin 1..200
              \/ ace /\ params.guidance_scale # None
                     /\ params.guidance_scale[1] \notin 10..300
              \/ ace /\ params.scheduler # None
                     /\ params.scheduler[1] \notin
                            {"euler", "heun", "pingpong", "Euler", "Heun", "PingPong"}

\* C14: a generate request that fails validation is answered with its
\* validation error straight from the read of its line, and from that read
\* until its response is written the queue, the cache, the loaded bundle,
\* the shutdown flag and the written files do not change and nothing but the
\* response is written to the output.
C14_ValidationErrorNoSideEffects ==
    [][ /\ (pc = "read" /\ cur'.is_generate /\ FailsValidation(cur'.params))
            => /\ pc' = "respond"
               /\ ~cur'.result.ok
               /\ cur'.result.body.code \in ValidationCodes
               /\ out' = <<>>
               /\ UNCHANGED <<queue, cache, accessed, models, shutdown, files>>
        /\ (pc = "respond" /\ cur.is_generate /\ FailsValidation(cur.params))
            => /\ out' = <<Response(cur.id, cur.result)>>
               /\ UNCHANGED <<queue, cache, accessed, models, shutdown, files>>
      ]_vars

\* A request failing validation has been answered while a bundle is loaded
\* and the cache holds a track.
C14_Witness ==
    /\ pc = "respond"
    /\ cur.is_generate
    /\ FailsValidation(cur.params)
    /\ cur.result.body.code = -32011
    /\ models # None
    /\ cache_len(cache) > 0

LoadFailed(c) == c.load # None /\ ~c.load[1].ok

\* C15: when load_backend fails, the request is answered at once with
\* MODEL_LOAD_FAILED (-32001); nothing was written for the request before
\* the response, and from the read of the request until its response is
\* written the loaded-bundle slot, the queue, the cache and the written
\* files are unchanged.
C15_LoadFailureLeavesSlot ==
    [][ /\ (pc = "read" /\ pc' = "ensure")
            => UNCHANGED <<models, queue, cache, accessed, files>>
        /\ (pc = "ensure" /\ LoadFailed(cur'))
            => /\ pc' = "respond"
               /\ ~cur'.result.ok
               /\ cur'.result.body.code = -32001
               /\ ~cur'.looked_up
               /\ out' = <<>>
               /\ UNCHANGED <<models, queue, cache, accessed, files>>
        /\ (pc = "respond" /\ LoadFailed(cur))
            => /\ out' = <<Response(cur.id, cur.result)>>
               /\ UNCHANGED <<models, queue, cache, accessed, files>>
      ]_vars

\* Loading ACE-Step failed while the MusicGen bundle is loaded and a track
\* is cached.
C15_Witness ==
    /\ pc = "respond"
    /\ LoadFailed(cur)
    /\ cur.backend = "ace_step"
    /\ models = Some("musicgen")
    /\ cache_len(cache) > 0

\* The bundles in memory: the one in the slot and the one load_backend has
\* returned and set_models has not yet been given.
Resident ==
    (IF models # None THEN {<<"state.models", models[1]>>} ELSE {})
        \cup (IF cur.load # None /\ cur.load[1].ok
              THEN {<<"loaded", cur.load[1].body>>} ELSE {})

\* C16: at most one model bundle is resident at any time; the bundle in the
\* slot is gone before the bundle of another backend has been loaded.
C16_OneBundleResident == Cardinality(Resident) <= 1

StartedImmediately(c) == ~c.hit /\ c.job # None /\ c.initial

\* C18: in a successful generate response, status is complete exactly when
\* the track came from the cache, generating exactly when the job was
\* admitted at position 0 and started at once, and queued otherwise, with
\* position the index at which the job sits in the queue.
C18_StatusTellsWhatHappened ==
    (pc = "respond" /\ cur.is_generate /\ cur.result.ok) =>
        LET r == cur.result.body
        IN  /\ r.status \in {"complete", "generating", "queued"}
            /\ r.status = "complete" <=> cur.hit
            /\ r.status = "generating" <=> StartedImmediately(cur)
            /\ r.status = "queued" <=> (~cur.hit /\ ~StartedImmediately(cur))
            /\ r.status = "generating" => r.position = 0
            /\ r.status = "queued" =>
                   /\ r.position < Len(queue)
                   /\ queue[r.position + 1].queue_position = Some(r.position)
                   /\ queue[r.position + 1].prompt = cur.params.prompt
                   /\ queue[r.position + 1].seed = cur.seed

\* A request is answered complete from the cache after the request before
\* it was admitted at position 0 and generated.
C18_Witness ==
    /\ pc = "respond"
    /\ cur.is_generate
    /\ cur.result.ok
    /\ cur.result.body.status = "complete"
    /\ cur.hit
    /\ prev.completed

\* C19: of eleven generate requests sent in rapid succession, none served
\* from the cache, the eleventh is answered with error -32004 QUEUE_FULL
\* whose details carry the current queue size.
C19_EleventhIsQueueFull ==
    (pc = "respond" /\ requests = BurstSize) =>
        /\ ~cur.result.ok
        /\ cur.result.body.code = -32004
        /\ cur.result.body.detail = Len(queue)

\* C20: a shutdown request is answered with status shutting_down; its
\* response is written before the input loop exits; and once the loop has
\* exited no further line is read, processed or answered.
C20_ShutdownStopsTheLoop ==
    [][ /\ (pc = "read" /\ shutdown')
            => /\ pc' = "respond"
               /\ cur'.result = Ok([status |-> "shutting_down"])
               /\ out' = <<>>
        /\ (pc = "respond" /\ shutdown)
            => /\ out' = <<Response(cur.id, Ok([status |-> "shutting_down"]))>>
               /\ pc' = "stopped"
               /\ requests' = requests
        /\ pc # "stopped"
      ]_vars

\* The loop has exited on a shutdown request with its response written and
\* input still to come.
C20_Witness ==
    /\ pc = "stopped"
    /\ shutdown
    /\ requests < MaxRequests
    /\ out = <<Response(Some(requests), Ok([status |-> "shutting_down"]))>>

\* The response lines among the lines written since the current line was read
Responses(lines) == {i \in 1..Len(lines) : lines[i].kind = "response"}

\* C21: an empty line is skipped without a response; every other line is
\* handled to its end before the next line is read, and exactly one
\* response is written for it, after which the next line is read (so
\* responses come in the order of the requests); the response carries the
\* id of the request, or null when the line could not be parsed.  The n-th
\* line read carries the id n.  (ReadLine leaves the params of the line in
\* cur, which is what the first conjunct under the quantifier repeats.)
C21_OneResponsePerLineInOrder ==
    [][ /\ pc = "read" => \A line \in Lines :
               (line.params = cur'.params /\ ReadLine(line)) =>
                   IF line.kind = "empty"
                   THEN pc' = "read" /\ out' = <<>>
                   ELSE /\ pc' \in {"ensure", "respond"}
                        /\ out' = <<>>
                        /\ cur'.id = IF line.kind = "garbage" THEN None
                                     ELSE Some(requests')
        /\ pc \in {"ensure", "set_models", "lookup", "generate", "next_job"}
            => /\ pc' \notin {"read", "stopped"}
               /\ cur'.id = cur.id
               /\ requests' = requests
               /\ Responses(out') = {}
        /\ pc = "respond"
            => /\ pc' \in {"read", "stopped"}
               /\ requests' = requests
               /\ Responses(out') = {Len(out')}
               /\ SubSeq(out', 1, Len(out)) = out
               /\ out'[Len(out')].id = cur.id
      ]_vars

\* The second line has been answered under its own id, after the
\* notifications of its generation.
C21_Witness ==
    /\ pc = "read"
    /\ requests = 2
    /\ Len(out) > 1
    /\ out[Len(out)].kind = "response"
    /\ out[Len(out)].id = Some(2)

ProtocolError(c, code) ==
    ~c.is_generate /\ ~c.result.ok /\ c.result.body.code = code

\* C22: a line that is not a request object is answered -32700 with a null
\* id; else a line whose version is not "2.0" is answered -32600 under its
\* id whatever its method, and the method is not dispatched: shutdown flag,
\* bundle, queue, cache and files stay as they are; else a line with an
\* unknown method is answered -32601.  Writing these answers changes no
\* state either.
C22_ProtocolErrorOrder ==
    [][ /\ pc = "read" => \A line \in Lines :
               (line.params = cur'.params /\ ReadLine(line)) =>
                   /\ line.kind = "garbage" =>
                          /\ pc' = "respond"
                          /\ ProtocolError(cur', -32700)
                          /\ cur'.id = None
                          /\ UNCHANGED <<shutdown, models, queue, cache, files>>
                   /\ line.kind = "bad_version" =>
                          /\ pc' = "respond"
                          /\ ProtocolError(cur', -32600)
                          /\ cur'.id = Some(requests')
                          /\ UNCHANGED <<shutdown, models, queue, cache, files>>
                   /\ (/\ line.kind = "request"
                       /\ line.method \notin {"generate", "get_backends", "ping",
                                               "shutdown"}) =>
                          /\ pc' = "respond"
                          /\ ProtocolError(cur', -32601)
                          /\ cur'.id = Some(requests')
                          /\ UNCHANGED <<shutdown, models, queue, cache, files>>
        /\ (/\ pc = "respond"
            /\ \E code \in {-32700, -32600, -32601} : ProtocolError(cur, code))
               => /\ out' = <<Response(cur.id, cur.result)>>
                  /\ UNCHANGED <<shutdown, models, queue, cache, files>>
      ]_vars

\* A line with a wrong version is being answered while a bundle is loaded
\* and a track is cached.
C22_Witness ==
    /\ pc = "respond"
    /\ ProtocolError(cur, -32600)
    /\ ~shutdown
    /\ models # None
    /\ cache_len(cache) > 0

\* The fingerprint of the generate request being handled: the track id its
\* backend's models give to its prompt, seed and requested duration.
RequestTrackId(c) ==
    compute_track_id(c.backend, c.params.prompt, c.seed,
                     c.params.duration_sec * 100,
                     unwrap_or(version(Some(c.backend)), "unknown"))

\* A validated generate request is being handled, has not yet been looked
\* up, and its track is in the cache.
CachedRequestPending ==
    /\ cur.is_generate
    /\ pc \in {"ensure", "set_models", "lookup"}
    /\ contains(cache, RequestTrackId(cur))

\* C31: a generate request whose track is already cached is answered from
\* the cache: between validation and the answer no model bundle is loaded
\* or switched, no job is admitted, and the answer is the cache hit.
C31_CachedAnsweredBeforeModels ==
    [][CachedRequestPending =>
        /\ models' = models
        /\ cur'.load = None
        /\ queue' = queue
        /\ pc' \in {"lookup", "respond"}
        /\ pc' = "respond" => cur'.hit]_vars

\* The step in which handle_generate finds the request's track in the cache
ServedFromCache == pc = "lookup" /\ cur'.hit

\* C32: a generate request served from the cache emits no
\* generation_progress notification, adds no job to the queue, starts no
\* generation and writes no file, and changes nothing in the cache except
\* the access time of the entry it hit.
C32_CacheHitTouchesOnlyAccessTime ==
    /\ [](cur.hit =>
             /\ pc = "respond"
             /\ cur.job = None
             /\ ~cur.completed
             /\ \A i \in 1..Len(out) : ~IsProgress(out[i]))
    /\ [][ServedFromCache =>
             LET key == cur'.track_id
             IN  /\ queue' = queue
                 /\ files' = files
                 /\ pc' = "respond"
                 /\ \A i \in 1..Len(out') : ~IsProgress(out'[i])
                 /\ cache'.max_entries = cache.max_entries
                 /\ DOMAIN cache'.tracks = DOMAIN cache.tracks
                 /\ \A k \in DOMAIN cache.tracks :
                        /\ cache'.tracks[k].track = cache.tracks[k].track
                        /\ k # key => cache'.tracks[k] = cache.tracks[k]]_vars
    /\ [][(pc = "respond" /\ cur.hit) =>
             /\ cache' = cache
             /\ queue' = queue
             /\ files' = files
             /\ pc' \in {"read", "stopped"}
             /\ out' = Append(out, Response(cur.id, cur.result))]_vars

\* A request has just been served from the cache: the entry it hit is
\* stamped with the time of the lookup and the response says complete.
C32_Witness ==
    /\ pc = "respond"
    /\ cur.hit
    /\ cur.result.ok
    /\ cur.result.body.status = "complete"
    /\ contains(cache, cur.track_id)
    /\ cache.tracks[cur.track_id].last_accessed = clock
    /\ \E i \in 1..Len(out) : IsNotification(out[i], "generation_complete")

\* C35: in the synchronous server no job waits in the queue between
\* requests.  The queue is empty when a line is about to be read, when
\* handle_generate has been entered (parameters admitted, models not yet
\* ensured, backend about to be set, cache about to be looked up) and when
\* the handler has returned with its result or error; a request that was
\* admitted as a job returns with that job popped and generated.
C35_QueueEmptyBetweenRequests ==
    /\ pc \in {"read", "ensure", "set_models", "lookup", "respond", "stopped"}
           => queue = <<>>
    /\ (pc = "respond" /\ cur.looked_up /\ ~cur.hit)
           => /\ cur.job # None
              /\ cur.job[1].status = "Generating"
              /\ cur.initial \/ cur.completed \/ ~cur.result.ok

C35_Witness ==
    /\ pc = "respond"
    /\ requests = MaxRequests
    /\ cur.job # None
    /\ prev.completed
    /\ queue = <<>>

\* the terminal notifications written since the current line was read
Terminals == { i \in 1..Len(out) : IsTerminal(out[i]) }

\* C38: every job that starts generating ends with exactly one terminal
\* notification, a generation_complete or a generation_error and not both,
\* and no generation_progress of the job follows it.  While the job is
\* generating no terminal notification has been written; when the call of
\* generate and what follows it is over, one has, it carries the job's
\* track_id, and every generation_progress stands before it.
C38_OneTerminalNotificationPerJob ==
    /\ pc = "generate" => Terminals = {}
    /\ (pc \in {"next_job", "respond"} /\ cur.job # None) =>
           /\ Cardinality(Terminals) = 1
           /\ \A i \in Terminals :
                  /\ out[i].params.track_id = cur.track_id
                  /\ \A j \in 1..Len(out) : IsProgress(out[j]) => j < i

\* A job that reported progress and then failed has its generation_error.
C38_Witness ==
    /\ pc \in {"next_job", "respond"}
    /\ cur.job # None
    /\ \E i \in Terminals : IsNotification(out[i], "generation_error")
    /\ \E j \in 1..Len(out) : IsProgress(out[j])

\* the tracks a step puts into the cache: new keys, and keys whose Track
\* is replaced
Inserted ==
    { id \in DOMAIN cache'.tracks :
        \/ id \notin DOMAIN cache.tracks
        \/ cache'.tracks[id].track # cache.tracks[id].track }

\* C39: a Track is inserted into the cache only after its audio file was
\* written and only for a job that ends with generation_complete.  Every
\* cached Track has its file; a step that inserts a Track is the end of a
\* generation, its last notification is the generation_complete with the
\* path of the Track, and the file at that path has been written; a
\* generation that ends with generation_error leaves the cache as it was.
C39_CachedOnlyAfterFileWritten ==
    /\ [](\A id \in DOMAIN cache.tracks : cache.tracks[id].track.path \in files)
    /\ [][Inserted # {} =>
              /\ pc = "generate"
              /\ Cardinality(Inserted) = 1
              /\ IsNotification(out'[Len(out')], "generation_complete")
              /\ \A id \in Inserted :
                     /\ cache'.tracks[id].track.path = out'[Len(out')].params.path
                     /\ cache'.tracks[id].track.path \in files']_vars
    /\ [][(pc = "generate"
           /\ IsNotification(out'[Len(out')], "generation_error"))
              => cache' = cache /\ files' = files]_vars

\* A generation whose file could not be written has ended with
\* generation_error while the cache holds the track of an earlier job.
C39_Witness ==
    /\ pc = "respond"
    /\ cur.job # None
    /\ cur.result = Err(model_inference_failed)
    /\ out # <<>>
    /\ \E i \in 1..Len(out) : IsProgress(out[i]) /\ out[i].params.percent = 100
    /\ DOMAIN cache.tracks # {}

----------------------------------------------------------------------------
\* The QueueProcessor (generation/queue.rs): a client thread submits jobs
\* and may shut the processor down; the processor thread takes one message
\* at a time and runs process_fn on the job at the front of the queue.
\* process_fn is the caller's closure: it reports progress any number of
\* times (at most MaxProgress here) and returns Complete or Failed.

QueueMessage(type, job_id) == [type |-> type, job_id |-> job_id]

JobResult(type, job) ==
    [type |-> type, job_id |-> job.job_id, track_id |-> job.track_id]

Event(kind, job_id) == [kind |-> kind, job_id |-> job_id]

\* the pairs of job ids in queue order
QueueOrder(jobs) ==
    { <<jobs[p[1]].job_id, jobs[p[2]].job_id>> :
        p \in { q \in (1..Len(jobs)) \X (1..Len(jobs)) : q[1] < q[2] } }

InitProcessor ==
    /\ ProcessorNew
    /\ queue = <<>>
    /\ clock = 0
    /\ lastOp = NoOp
    /\ lastPopped = [p \in JobPriority |-> 0]
    /\ cache = TrackCacheNew
    /\ accessed = <<>>
    /\ ServerUnused

\* Mutex::lock returns the guard once no thread holds the mutex; the guard
\* releases the mutex when it is dropped.
lock(thread) == Some(thread)

unlock_leaked(thread) == Some(thread)

unlock(thread) == None

\* submit takes the lock (queue.rs 218); the caller made the job.
SubmitLock(priority) ==
    /\ client.pc = "idle"
    /\ clock < MaxSubmits
    /\ mutex = None
    /\ mutex' = lock("client")
    /\ clock' = clock + 1
    /\ client' = Thread("add", Some(GenerationJobNew(clock + 1, "test prompt",
                                                     30, 42, priority, "v1")))
    /\ UNCHANGED <<queue, lastOp, lastPopped, cacheVars, serverVars, job_tx,
                   result_rx, worker, events, ahead, submitted>>

\* submit, queue.add under the lock and drop(queue) (219-220).  A full
\* queue returns the error, which drops the guard, and nothing is sent.
SubmitAdd ==
    /\ client.pc = "add"
    /\ LET job   == client.job[1]
           added == add(queue, job)
       IN  /\ queue' = added.jobs
           /\ ahead' = ahead \cup QueueOrder(added.jobs)
           /\ client' = IF added.ok THEN Thread("send", Some(job.job_id))
                         ELSE Thread("idle", None)
    /\ mutex' = unlock("client")
    /\ UNCHANGED <<clock, lastOp, lastPopped, cacheVars, serverVars, job_tx,
                   result_rx, worker, events, submitted>>

\* mpsc Sender::send: the message is queued while the receiver is alive;
\* once the receiver has been dropped send returns Err and the message is
\* dropped with it.  Every caller in queue.rs discards the result with .ok().
send(chan, msg, connected) == IF connected THEN Append(chan, msg) ELSE chan

\* processor_loop owns the receiver of the job channel, which is dropped
\* when the loop has ended.
receiver_alive == worker.pc # "exited"

\* submit, second half: sender.send(JobAdded(job)).ok() after the lock is
\* dropped, and Ok(position) is returned (222-225)
SubmitSend ==
    /\ client.pc = "send"
    /\ job_tx' = send(job_tx, QueueMessage("JobAdded", client.job[1]),
                      receiver_alive)
    /\ submitted' = submitted \cup {client.job[1]}
    /\ client' = Thread("idle", None)
    /\ UNCHANGED <<queue, clock, lastOp, lastPopped, cacheVars, serverVars,
                   result_rx, worker, events, ahead, mutex>>

\* queue_len, is_full and get_position: self.queue.lock() ..
QueryLock ==
    /\ client.pc = "idle"
    /\ mutex = None
    /\ mutex' = lock("client")
    /\ client' = Thread("query", None)
    /\ UNCHANGED <<queue, clock, lastOp, lastPopped, cacheVars, serverVars,
                   job_tx, result_rx, worker, events, ahead, submitted>>

\* .. the queue is read and the guard dropped at the end of the statement
QueryRead ==
    /\ client.pc = "query"
    /\ mutex' = unlock("client")
    /\ client' = Thread("idle", None)
    /\ UNCHANGED <<queue, clock, lastOp, lastPopped, cacheVars, serverVars,
                   job_tx, result_rx, worker, events, ahead, submitted>>

\* try_recv_result when a result is waiting
TryRecvResult ==
    /\ client.pc = "idle"
    /\ result_rx # <<>>
    /\ result_rx' = Tail(result_rx)
    /\ UNCHANGED <<queue, clock, lastOp, lastPopped, cacheVars, serverVars,
                   job_tx, worker, client, events, ahead, mutex, submitted>>

\* shutdown(&mut self): sends Shutdown, then takes the thread handle and
\* joins the processor thread (249-254).  The processor stays usable after
\* the call; a second shutdown finds the receiver dropped and the handle
\* taken and changes nothing.
Shutdown ==
    /\ client.pc = "idle"
    /\ receiver_alive
    /\ job_tx' = send(job_tx, QueueMessage("Shutdown", 0), receiver_alive)
    /\ client' = Thread("joining", None)
    /\ UNCHANGED <<queue, clock, lastOp, lastPopped, cacheVars, serverVars,
                   result_rx, worker, events, ahead, mutex, submitted>>

Joined ==
    /\ client.pc = "joining"
    /\ worker.pc = "exited"
    /\ client' = Thread("idle", None)
    /\ UNCHANGED <<queue, clock, lastOp, lastPopped, cacheVars, serverVars,
                   job_tx, result_rx, worker, events, ahead, mutex, submitted>>

\* The processor thread once it has popped a job: it calls process_fn(job)
\* itself and is busy until the call returns.
start_process_detached(job) == Thread("recv", None)

start_process(job) == Thread("process", Some(set_generating(job)))

\* processor_loop: receiver.recv(); on Shutdown the loop breaks, on
\* JobAdded the thread goes for the lock.
WorkerRecv ==
    /\ worker.pc = "recv"
    /\ job_tx # <<>>
    /\ job_tx' = Tail(job_tx)
    /\ worker' = IF Head(job_tx).type = "Shutdown"
                 THEN Thread("exited", None)
                 ELSE Thread("lock", None)
    /\ UNCHANGED <<queue, clock, lastOp, lastPopped, cacheVars, serverVars,
                   result_rx, client, events, ahead, mutex, submitted>>

\* queue.lock() (queue.rs 271)
WorkerLock ==
    /\ worker.pc = "lock"
    /\ mutex = None
    /\ mutex' = lock("worker")
    /\ worker' = Thread("pop", None)
    /\ UNCHANGED <<queue, clock, lastOp, lastPopped, cacheVars, serverVars,
                   job_tx, result_rx, client, events, ahead, submitted>>

\* q.pop_next() and the end of the block, which drops the guard (272-273);
\* then set_generating and the call of process_fn, if there was a job.
WorkerPop ==
    /\ worker.pc = "pop"
    /\ LET popped == pop_next(queue)
       IN  /\ queue' = popped.jobs
           /\ IF popped.job = None
              THEN /\ worker' = Thread("recv", None)
                   /\ UNCHANGED events
              ELSE /\ worker' = start_process(popped.job[1])
                   /\ events' = Append(events,
                                    Event("start", popped.job[1].job_id))
    /\ mutex' = unlock("worker")
    /\ UNCHANGED <<clock, lastOp, lastPopped, cacheVars, serverVars, job_tx,
                   result_rx, client, ahead, submitted>>

\* process_fn(job) reports progress
WorkerProgress ==
    /\ worker.pc = "process"
    /\ worker.progress < MaxProgress
    /\ worker' = [worker EXCEPT !.progress = @ + 1]
    /\ events' = Append(events, Event("progress", worker.job[1].job_id))
    /\ UNCHANGED <<queue, clock, lastOp, lastPopped, cacheVars, serverVars,
                   job_tx, result_rx, client, ahead, mutex, submitted>>

\* process_fn(job) returns and the result is sent
WorkerFinish(type) ==
    /\ worker.pc = "process"
    /\ events' = Append(events, Event(type, worker.job[1].job_id))
    /\ result_rx' = Append(result_rx, JobResult(type, worker.job[1]))
    /\ worker' = Thread("recv", None)
    /\ UNCHANGED <<queue, clock, lastOp, lastPopped, cacheVars, serverVars,
                   job_tx, client, ahead, mutex, submitted>>

NextProcessor ==
    \/ \E priority \in JobPriority : SubmitLock(priority)
    \/ SubmitAdd
    \/ SubmitSend
    \/ QueryLock
    \/ QueryRead
    \/ TryRecvResult
    \/ Shutdown
    \/ Joined
    \/ WorkerRecv
    \/ WorkerLock
    \/ WorkerPop
    \/ WorkerProgress
    \/ \E type \in {"Complete", "Failed"} : WorkerFinish(type)

SpecProcessor == InitProcessor /\ [][NextProcessor]_vars

EventsOf(job_id) == { i \in 1..Len(events) : events[i].job_id = job_id }

IsTerminalEvent(e) == e.kind \in {"Complete", "Failed"}

Running ==
    { events[i].job_id : i \in { k \in 1..Len(events) : events[k].kind = "start" } }
    \ { events[i].job_id : i \in { k \in 1..Len(events) : IsTerminalEvent(events[k]) } }

\* The jobs of the server whose status is Generating: the one the handler
\* is generating, and any such job in the queue.
ServerGenerating ==
    { cur.job[i].job_id : i \in { k \in 1..Len(cur.job) : pc \in {"generate", "next_job"} } }
    \cup { queue[i].job_id : i \in { k \in 1..Len(queue) : queue[k].status = "Generating" } }

\* C11: at most one generation is active at any moment: the processor
\* thread never runs process_fn for a second job before the call for the
\* previous job has returned, and in the server no job is generating while
\* another is.
C11_OneActiveGeneration ==
    /\ Cardinality(Running) <= 1
    /\ Cardinality(ServerGenerating) <= 1

\* Two jobs have been run, the second started after the first returned.
C11_Witness ==
    /\ Cardinality(Running) = 1
    /\ \E i \in 1..Len(events) : IsTerminalEvent(events[i])
    /\ queue # <<>>

\* C34: the queue mutex is held only for the length of one add, pop_next
\* or query: the processor thread holds it exactly while it pops and never
\* while process_fn runs, the client holds it exactly while it adds or
\* reads and never while it sends on the channel, and the holder's next
\* step releases it; so while a generation runs the mutex is free for
\* submit and for position queries.
C34_MutexHeldOnlyForOneQueueCall ==
    /\ [](/\ mutex \in {None, Some("client"), Some("worker")}
          /\ mutex = Some("worker") <=> worker.pc = "pop"
          /\ mutex = Some("client") <=> client.pc \in {"add", "query"}
          /\ worker.pc = "process" => mutex # Some("worker")
          /\ client.pc = "send" => mutex # Some("client")
          /\ (worker.pc = "process" /\ client.pc \in {"idle", "send"})
                 => mutex = None)
    /\ [][(mutex = Some("worker") /\ worker' # worker) => mutex' = None]_vars
    /\ [][(mutex = Some("client") /\ client' # client) => mutex' = None]_vars

\* While process_fn runs the client has taken the lock for a submit.
C34_Witness ==
    /\ worker.pc = "process"
    /\ worker.progress > 0
    /\ client.pc = "add"
    /\ mutex = Some("client")
    /\ queue # <<>>

\* The JobAdded messages sent and not yet received.
JobAddedInFlight ==
    { i \in 1..Len(job_tx) : job_tx[i].type = "JobAdded" }

\* C36: whenever the processor thread has received a JobAdded message the
\* shared queue is non-empty, so its pop_next returns a job.  Under every
\* interleaving of submit and the processor thread the queue holds at least
\* one job for every JobAdded message in flight or received and not yet
\* acted on (the pops never exceed the successful adds); the job processed
\* is the head of the queue at the pop, and a normal job is processed only
\* when no high-priority job is pending.
C36_JobAddedFindsTheHead ==
    /\ [](/\ worker.pc \in {"lock", "pop"} => queue # <<>>
          /\ Len(queue) >= Cardinality(JobAddedInFlight)
                           + (IF worker.pc \in {"lock", "pop"} THEN 1 ELSE 0))
    /\ [][worker.pc = "pop" /\ worker' # worker =>
              /\ worker'.pc = "process"
              /\ worker'.job = Some(set_generating(Head(queue)))
              /\ Len(queue') = Len(queue) - 1
              /\ worker'.job[1].priority = "Normal" =>
                     \A i \in 1..Len(queue') : queue'[i].priority = "Normal"]_vars

\* A high-priority job submitted after a normal job is being processed while
\* the normal job is still pending.
C36_Witness ==
    /\ worker.pc = "process"
    /\ worker.job[1].priority = "High"
    /\ \E i \in 1..Len(queue) :
           /\ queue[i].priority = "Normal"
           /\ queue[i].job_id < worker.job[1].job_id

StartsOf(job_id) ==
    { i \in EventsOf(job_id) : events[i].kind = "start" }

TerminalsOf(job_id) ==
    { i \in EventsOf(job_id) : IsTerminalEvent(events[i]) }

\* C37: every job for which submit returned Ok is passed to process_fn
\* exactly once and yields exactly one JobResult on the result channel.  No
\* job is started or finished twice, each return of process_fn sends one
\* JobResult for its job and nothing else sends one, and once the processor
\* thread has exited, after which nothing more is processed, every job whose
\* submit returned Ok has been started once and has finished once; so the
\* jobs pending at shutdown() were processed before the thread exited.
C37_EverySubmittedJobProcessedOnce ==
    /\ [](\A job_id \in 1..clock :
            /\ Cardinality(StartsOf(job_id)) <= 1
            /\ Cardinality(TerminalsOf(job_id)) <= 1
            /\ (worker.pc = "exited" /\ job_id \in submitted) =>
                   /\ Cardinality(StartsOf(job_id)) = 1
                   /\ Cardinality(TerminalsOf(job_id)) = 1)
    /\ [][IF events' # events /\ IsTerminalEvent(events'[Len(events')])
          THEN /\ Len(result_rx') = Len(result_rx) + 1
               /\ result_rx'[Len(result_rx')].job_id = events'[Len(events')].job_id
               /\ result_rx'[Len(result_rx')].type = events'[Len(events')].kind
          ELSE Len(result_rx') <= Len(result_rx)]_vars

----------------------------------------------------------------------------
\* The queue driven through its public interface: any sequence of add and
\* pop_next, jobs made as the tests make them (create_test_job).

InitQueue ==
    /\ queue = <<>>
    /\ clock = 0
    /\ lastOp = NoOp
    /\ lastPopped = [p \in JobPriority |-> 0]
    /\ cache = TrackCacheNew
    /\ accessed = <<>>
    /\ ServerUnused
    /\ ProcessorUnused

QAdd(priority) ==
    /\ clock < MaxJobs
    /\ LET job == GenerationJobNew(clock + 1, "test prompt", 30, 42, priority, "v1")
           r   == add(queue, job)
       IN  /\ queue' = r.jobs
           /\ lastOp' = [op |-> "add", priority |-> priority,
                         job_id |-> job.job_id, ok |-> r.ok, value |-> r.value,
                         len_before |-> Len(queue)]
    /\ clock' = clock + 1
    /\ UNCHANGED <<lastPopped, cacheVars, serverVars, processorVars>>

QPopNext ==
    LET r == pop_next(queue)
    IN  /\ queue' = r.jobs
        /\ IF r.job = None
           THEN /\ lastOp' = [NoOp EXCEPT !.op = "pop", !.ok = FALSE]
                /\ UNCHANGED lastPopped
           ELSE /\ lastOp' = [op |-> "pop", priority |-> r.job[1].priority,
                              job_id |-> r.job[1].job_id, ok |-> TRUE,
                              value |-> 0, len_before |-> Len(queue)]
                /\ lastPopped' = [lastPopped EXCEPT
                                      ![r.job[1].priority] = r.job[1].job_id]
        /\ UNCHANGED <<clock, cacheVars, serverVars, processorVars>>

NextQueue ==
    \/ \E priority \in JobPriority : QAdd(priority)
    \/ QPopNext

SpecQueue == InitQueue /\ [][NextQueue]_vars

----------------------------------------------------------------------------
\* DelayPatternMaskIds<4> (models/delay_pattern.rs) and the loop of
\* MusicGenDecoder::generate_tokens (models/decoder.rs) that drives it.
\* batches is the array of the four rows; row i of the code is batches[i + 1]
\* and element j of a row is row[j + 1].

\* types/config.rs: pad_token_id: 2048
pad_token_id == 2048

DelayPatternMaskIdsNew == <<<<>>, <<>>, <<>>, <<>>>>

push(batches, token_ids) ==
    [i \in 1..4 |-> Append(batches[i], token_ids[i])]

last_delayed_masked_unmasked(batches, pad) ==
    [i \in 1..4 |-> IF batches[i] = <<>> THEN pad
                    ELSE batches[i][Len(batches[i])]]

last_delayed_masked(batches, pad) ==
    LET seq_len == Len(batches[1])
    IN  [i \in 1..4 |-> IF seq_len - (i - 1) <= 0 THEN pad
                        ELSE batches[i][Len(batches[i])]]

last_de_delayed_no_shift(batches) ==
    IF Len(batches[1]) < 4 THEN None
    ELSE Some([i \in 1..4 |-> batches[i][Len(batches[i]) - 4 + 1]])

last_de_delayed(batches) ==
    IF Len(batches[1]) < 4 THEN None
    ELSE Some([i \in 1..4 |-> batches[i][Len(batches[i]) - 4 + (i - 1) + 1]])

\* What sample_top_k can return at the push after n earlier ones: the four
\* tokens of the repository's tests ([1,2,3,4], [5,6,7,8], ..) or the same
\* plus 100.
Samples(n) ==
    { [i \in 1..4 |-> base + 4 * n + i] : base \in {0, 100} }

\* The outputs of a session run: the tensor named present.{j}.{part} for
\* every layer j and each of the four parts.  A tensor is told from every
\* other by the run that produced it (run 0 is the first pass).
KvParts == <<"decoder.key", "decoder.value", "encoder.key", "encoder.value">>
Present(run, j, part) == [run |-> run, layer |-> j, part |-> part]

\* An entry of kv_cache: the input name past_key_values.{j}.{part} and the
\* tensor held under it
KvEntry(j, part, tensor) == [name |-> <<"past_key_values", j, part>>, tensor |-> tensor]

\* decoder.rs 127-147: the four tensors of every layer, taken from the
\* outputs of the first pass
extract_kv_cache(num_hidden_layers, run) ==
    [n \in 1..(4 * num_hidden_layers) |->
        LET j    == (n - 1) \div 4
            part == KvParts[((n - 1) % 4) + 1]
        IN  KvEntry(j, part, Present(run, j, part))]

update_kv_cache_every_slot(kv_cache, run) ==
    extract_kv_cache(Len(kv_cache) \div 4, run)

\* decoder.rs 202-214: kv_cache[j * 4] and kv_cache[j * 4 + 1] of every layer
\* are replaced by the decoder key and value of this run
update_kv_cache(kv_cache, run) ==
    LET num_layers == Len(kv_cache) \div 4
    IN  [n \in 1..Len(kv_cache) |->
            LET j == (n - 1) \div 4
            IN  IF j < num_layers /\ n - 1 = j * 4
                THEN KvEntry(j, "decoder.key", Present(run, j, "decoder.key"))
                ELSE IF j < num_layers /\ n - 1 = j * 4 + 1
                THEN KvEntry(j, "decoder.value", Present(run, j, "decoder.value"))
                ELSE kv_cache[n]]

\* The locals of generate_tokens: where it is, the loop counter, the
\* number of decoder_with_past runs, the last input_ids and pushed tokens,
\* and the KV cache.
DecoderState(at, max_len, pad, batches, results, i, steps, input_ids, pushed, num_hidden_layers) ==
    [ op |-> "generate_tokens", pc |-> at, max_len |-> max_len, pad |-> pad,
      generation_len |-> max_len + 3, batches |-> batches, results |-> results,
      i |-> i, steps |-> steps, input_ids |-> input_ids, pushed |-> pushed,
      num_hidden_layers |-> num_hidden_layers, kv_cache |-> <<>> ]

InitDecoder ==
    /\ \E max_len \in 1..MaxLen, pad \in {0, pad_token_id},
          num_hidden_layers \in 1..MaxLayers :
           lastOp = DecoderState("first_pass", max_len, pad,
                                 DelayPatternMaskIdsNew, <<>>, 0, 0,
                                 <<pad, pad, pad, pad>>, <<pad, pad, pad, pad>>,
                                 num_hidden_layers)
    /\ queue = <<>>
    /\ clock = 0
    /\ lastPopped = [p \in JobPriority |-> 0]
    /\ cache = TrackCacheNew
    /\ accessed = <<>>
    /\ ServerUnused
    /\ ProcessorUnused

\* decoder.rs 97-125: the first pass of the full decoder on pad tokens; its
\* sampled tokens are the first push.
FirstPass(tokens) ==
    /\ lastOp.pc = "first_pass"
    /\ lastOp' = [lastOp EXCEPT !.pc = "loop",
                                !.batches = push(@, tokens),
                                !.pushed = tokens,
                                !.kv_cache = extract_kv_cache(
                                                 lastOp.num_hidden_layers, 0)]
    /\ UNCHANGED <<queue, clock, lastPopped, cacheVars, serverVars, processorVars>>

\* decoder.rs 162-215: one iteration of the loop
LoopStep(tokens) ==
    /\ lastOp.pc = "loop"
    /\ lastOp.i < lastOp.generation_len
    /\ LET input_ids == last_delayed_masked(lastOp.batches, lastOp.pad)
           batches   == push(lastOp.batches, tokens)
           de        == last_de_delayed(batches)
       IN  lastOp' = [lastOp EXCEPT
                         !.input_ids = input_ids,
                         !.steps = @ + 1,
                         !.batches = batches,
                         !.pushed = tokens,
                         !.results = IF de # None THEN Append(@, de[1]) ELSE @,
                         !.kv_cache = update_kv_cache(@, lastOp.steps + 1),
                         !.i = @ + 1]
    /\ UNCHANGED <<queue, clock, lastPopped, cacheVars, serverVars, processorVars>>

\* A session run fails: generate_tokens returns the error.
RunFails ==
    /\ lastOp.pc \in {"first_pass", "loop"}
    /\ lastOp.pc = "loop" => lastOp.i < lastOp.generation_len
    /\ lastOp' = [lastOp EXCEPT !.pc = "failed"]
    /\ UNCHANGED <<queue, clock, lastPopped, cacheVars, serverVars, processorVars>>

\* decoder.rs 217: Ok(results)
ReturnTokens ==
    /\ lastOp.pc = "loop"
    /\ lastOp.i = lastOp.generation_len
    /\ lastOp' = [lastOp EXCEPT !.pc = "done"]
    /\ UNCHANGED <<queue, clock, lastPopped, cacheVars, serverVars, processorVars>>

NextDecoder ==
    \/ \E tokens \in Samples(Len(lastOp.batches[1])) : FirstPass(tokens)
    \/ \E tokens \in Samples(Len(lastOp.batches[1])) : LoopStep(tokens)
    \/ RunFails
    \/ ReturnTokens

SpecDecoder == InitDecoder /\ [][NextDecoder]_vars

\* The number of pushes made so far
Pushes == Len(lastOp.batches[1])

\* C24: after n pushes (n >= 0), for every row i in 0..3,
\* last_delayed_masked(pad)[i] is pad when n <= i and the element of row i
\* pushed last when n > i.
C24_MaskedIsPadUntilRowStarts ==
    \A i \in 0..3 :
        last_delayed_masked(lastOp.batches, lastOp.pad)[i + 1] =
            IF Pushes <= i THEN lastOp.pad ELSE lastOp.pushed[i + 1]

\* After two pushes rows 0 and 1 show their last tokens and rows 2 and 3
\* the pad token.
C24_Witness ==
    /\ Pushes = 2
    /\ lastOp.pad = pad_token_id
    /\ last_delayed_masked(lastOp.batches, lastOp.pad) =
           <<lastOp.pushed[1], lastOp.pushed[2], pad_token_id, pad_token_id>>
    /\ lastOp.pushed[3] # pad_token_id

\* The rows after the pushes [1,2,3,4], [5,6,7,8], .. of the tests
TestRows(n) == [i \in 1..4 |-> [k \in 1..n |-> 4 * (k - 1) + i]]

\* C25: after n pushes last_de_delayed() is present exactly when n >= 4,
\* and is then [b0[n-4], b1[n-3], b2[n-2], b3[n-1]]: [1,6,11,16] after the
\* pushes [1..4], [5..8], [9..12], [13..16] and [5,10,15,20] after [17..20].
C25_DeDelayedIsAntiDiagonal ==
    LET n  == Pushes
        b  == lastOp.batches
        de == last_de_delayed(b)
    IN  /\ de # None <=> n >= 4
        /\ n >= 4 => de[1] = <<b[1][n - 4 + 1], b[2][n - 3 + 1],
                               b[3][n - 2 + 1], b[4][n - 1 + 1]>>
        /\ b = TestRows(4) => de = Some(<<1, 6, 11, 16>>)
        /\ b = TestRows(5) => de = Some(<<5, 10, 15, 20>>)

\* The five pushes of the test have been made.
C25_Witness ==
    /\ lastOp.batches = TestRows(5)
    /\ last_de_delayed(lastOp.batches) = Some(<<5, 10, 15, 20>>)

\* C26: asked for N frames, generate_tokens runs the decoder loop N + 3
\* times and returns exactly N frames.
C26_ReturnsRequestedFrames ==
    lastOp.pc = "done" =>
        /\ lastOp.steps = lastOp.max_len + 3
        /\ Len(lastOp.results) = lastOp.max_len

\* C33: from the first pass until generate_tokens ends, the KV cache has
\* exactly four slots for every decoder layer; the decoder key and value
\* of a layer are the tensors of the latest run, and the encoder key and
\* value are the tensors harvested from the first pass; a loop step
\* changes no slot but the decoder key and value of each layer.
C33_KvCacheEncoderSlotsFrozen ==
    /\ [](lastOp.pc \in {"loop", "done"} =>
             LET kv == lastOp.kv_cache
             IN  /\ Len(kv) = 4 * lastOp.num_hidden_layers
                 /\ \A j \in 0..(lastOp.num_hidden_layers - 1) :
                        /\ \A p \in 1..4 :
                               kv[4 * j + p].name = <<"past_key_values", j, KvParts[p]>>
                        /\ \A p \in 1..2 :
                               kv[4 * j + p].tensor = Present(lastOp.steps, j, KvParts[p])
                        /\ \A p \in 3..4 :
                               kv[4 * j + p].tensor = Present(0, j, KvParts[p]))
    /\ [][(lastOp.pc = "loop" /\ lastOp'.pc = "loop") =>
             /\ Len(lastOp'.kv_cache) = Len(lastOp.kv_cache)
             /\ \A n \in 1..Len(lastOp.kv_cache) :
                    IF (n - 1) % 4 \in {0, 1}
                    THEN lastOp'.kv_cache[n] # lastOp.kv_cache[n]
                    ELSE lastOp'.kv_cache[n] = lastOp.kv_cache[n]]_vars

\* A decoder of two layers has made two loop steps: its decoder slots hold
\* tensors of the second step and its encoder slots those of the first pass.
C33_Witness ==
    /\ lastOp.pc = "loop"
    /\ lastOp.num_hidden_layers = 2
    /\ lastOp.steps = 2
    /\ Len(lastOp.kv_cache) = 8
    /\ lastOp.kv_cache[5].tensor = Present(2, 1, "decoder.key")
    /\ lastOp.kv_cache[8].tensor = Present(0, 1, "encoder.value")

----------------------------------------------------------------------------
\* The ACE-Step schedulers (models/ace_step/scheduler.rs) and the diffusion
\* loop that drives them (models/ace_step/generate.rs).  Sigmas are kept
\* in thousandths, so that a timestep (sigma * 1000) is the same number;
\* Rust indexes are 0-based, so sigmas[i] of the code is s.sigmas[i + 1].

\* compute_flow_matching_schedule with shift 3.0: sigma i of num_steps is
\* 3t / (1 + 2t) for t = 1 - i/num_steps, then a final 0; the timesteps are
\* the first num_steps sigmas times 1000.
compute_flow_matching_schedule(num_steps) ==
    LET sigmas == [i \in 1..(num_steps + 1) |->
                      IF i = num_steps + 1 THEN 0
                      ELSE (3000 * (num_steps - (i - 1)))
                               \div (3 * num_steps - 2 * (i - 1))]
    IN  [sigmas |-> sigmas, timesteps |-> SubSeq(sigmas, 1, num_steps)]

\* Each element of s twice
repeat_interleave(s) == [i \in 1..(2 * Len(s)) |-> s[(i + 1) \div 2]]

\* ChaCha8Rng::seed_from_u64: a stream fixed by the seed, read at pos
seed_from_u64(seed) == [seed |-> seed, pos |-> 0]

\* The value the seeded stream yields at a position (StandardNormal.sample)
sample(rng) ==
    ((rng.seed + 1 + rng.pos * rng.pos + rng.pos * 3) % 11) - 5

DynScheduler(type, num_steps, sigmas, timesteps, rng) ==
    [ type |-> type, num_steps |-> num_steps, sigmas |-> sigmas,
      timesteps |-> timesteps, current_step |-> 0, dt |-> None, rng |-> rng ]

EulerSchedulerNew(num_steps) ==
    LET base == compute_flow_matching_schedule(num_steps)
    IN  DynScheduler("euler", num_steps, base.sigmas, base.timesteps, None)

\* HeunScheduler::new: sigmas[:1], sigmas[1:-1] interleaved, 0.0 and
\* timesteps[:1], timesteps[1:] interleaved
HeunSchedulerNew(num_steps) ==
    LET base == compute_flow_matching_schedule(num_steps).sigmas
    IN  DynScheduler("heun", num_steps,
                     <<base[1]>> \o repeat_interleave(SubSeq(base, 2, Len(base) - 1))
                                 \o <<0>>,
                     <<base[1]>> \o repeat_interleave(SubSeq(base, 2, num_steps)),
                     None)

PingPongSchedulerNew(num_steps, seed) ==
    LET base == compute_flow_matching_schedule(num_steps)
    IN  DynScheduler("pingpong", num_steps, base.sigmas, base.timesteps,
                     Some(seed_from_u64(seed)))

create_scheduler(scheduler_type, num_steps, seed) ==
    CASE scheduler_type = "euler"    -> EulerSchedulerNew(num_steps)
      [] scheduler_type = "heun"     -> HeunSchedulerNew(num_steps)
      [] scheduler_type = "pingpong" -> PingPongSchedulerNew(num_steps, seed)

state_in_first_order(s) == s.dt = None

is_done_off_by_one(s) ==
    IF s.type = "heun" THEN s.current_step > Len(s.sigmas) - 1
    ELSE s.current_step > s.num_steps

is_done(s) ==
    IF s.type = "heun" THEN s.current_step >= Len(s.sigmas) - 1
    ELSE s.current_step >= s.num_steps

user_step(s) ==
    IF s.type = "heun" THEN s.current_step \div 2 ELSE s.current_step

user_num_steps(s) == s.num_steps

\* The 0-based indexes timestep() and step() read, with the length of the
\* vector each is read from: an index at or past the length panics.
timestep_index(s) ==
    IF s.type = "heun"
    THEN <<Min(s.current_step, Len(s.timesteps) - 1), Len(s.timesteps)>>
    ELSE <<s.current_step, Len(s.timesteps)>>

step_indexes(s) ==
    IF s.type = "heun" /\ ~state_in_first_order(s)
    THEN {<<s.current_step, Len(s.sigmas)>>}
    ELSE {<<s.current_step, Len(s.sigmas)>>, <<s.current_step + 1, Len(s.sigmas)>>}

in_bounds(ix) == ix[1] < ix[2]

timestep(s) == s.timesteps[timestep_index(s)[1] + 1]

sigma(s) == s.sigmas[s.current_step + 1]

next_sigma(s) == s.sigmas[s.current_step + 1 + 1]

\* generate_noise_like: one sample per element of the array, in order
generate_noise_like_from_values(arr, rng) ==
    [i \in 1..Len(arr) |-> sample([rng EXCEPT !.pos = @ + i - 1 + arr[i]])]

generate_noise_like(arr, rng) ==
    [i \in 1..Len(arr) |-> sample([rng EXCEPT !.pos = @ + i - 1])]

\* What step does to the scheduler itself, for a latent of size elements:
\* Euler and PingPong advance by one, PingPong also draws size samples;
\* Heun stores dt in a predictor call and takes it in a corrector call.
advance(s, size) ==
    CASE s.type = "euler" ->
             [s EXCEPT !.current_step = @ + 1]
      [] s.type = "pingpong" ->
             [s EXCEPT !.current_step = @ + 1,
                       !.rng = Some([@[1] EXCEPT !.pos = @ + size])]
      [] s.type = "heun" ->
             IF state_in_first_order(s)
             THEN [s EXCEPT !.dt = Some(next_sigma(s) - sigma(s)),
                            !.current_step = @ + 1]
             ELSE [s EXCEPT !.dt = None, !.current_step = @ + 1]

\* PingPongScheduler::step on arrays given as sequences: the returned
\* array is in millionths,
\* (1 - sigma_next) * (latent - sigma * model_output) + sigma_next * noise.
pingpong_step(s, latent, model_output) ==
    LET noise == generate_noise_like(latent, s.rng[1])
    IN  [ scheduler |-> advance(s, Len(latent)),
          noise |-> noise,
          out |-> [i \in 1..Len(latent) |->
                      (1000 - next_sigma(s))
                          * (1000 * latent[i] - sigma(s) * model_output[i])
                      + next_sigma(s) * 1000 * noise[i]] ]

\* What generate_with_progress can be asked for
SchedulerTypes == {"euler", "heun", "pingpong"}
FrameLengths == {1, 2}
DiffusionSeeds == {7, 42}

\* The locals of generate_with_progress from the creation of the scheduler
\* on: calls has one entry per scheduler.step call, with the user step and
\* the Heun order at the call and the predict_noise and apply_cfg calls
\* that fed it; reports are the on_progress calls.
DiffusionState(at, scheduler, seed, frame_length, last_user_step, reports, calls) ==
    [ op |-> "generate_with_progress", pc |-> at, scheduler |-> scheduler,
      seed |-> seed, frame_length |-> frame_length,
      last_user_step |-> last_user_step, reports |-> reports, calls |-> calls ]

InitDiffusion ==
    /\ \E type \in SchedulerTypes, num_steps \in 1..MaxInferenceSteps,
          seed \in DiffusionSeeds, frame_length \in FrameLengths :
           lastOp = DiffusionState("loop", create_scheduler(type, num_steps, seed),
                                   seed, frame_length, 0, <<>>, <<>>)
    /\ queue = <<>>
    /\ clock = 0
    /\ lastPopped = [p \in JobPriority |-> 0]
    /\ cache = TrackCacheNew
    /\ accessed = <<>>
    /\ ServerUnused
    /\ ProcessorUnused

\* generate.rs 123-129: progress is reported when the user step changed,
\* and at every iteration as long as last_user_step is 0.
ReportProgress(op) ==
    LET current_user_step == user_step(op.scheduler)
    IN  IF current_user_step # op.last_user_step \/ op.last_user_step = 0
        THEN [op EXCEPT !.reports = Append(@, <<current_user_step,
                                                user_num_steps(op.scheduler)>>),
                        !.last_user_step = current_user_step]
        ELSE op

\* generate.rs 122-160: one iteration of the diffusion loop
DiffusionStep ==
    /\ lastOp.pc = "loop"
    /\ ~is_done(lastOp.scheduler)
    /\ LET op == ReportProgress(lastOp)
           s  == op.scheduler
       IN  IF in_bounds(timestep_index(s)) /\ \A ix \in step_indexes(s) : in_bounds(ix)
           THEN lastOp' = [op EXCEPT
                              !.calls = Append(@, [user_step |-> user_step(s),
                                                   first_order |-> state_in_first_order(s),
                                                   timestep |-> timestep(s),
                                                   predict_noise |-> 2,
                                                   apply_cfg |-> 1]),
                              !.scheduler = advance(s, op.frame_length)]
           ELSE lastOp' = [op EXCEPT !.pc = "panicked"]
    /\ UNCHANGED <<queue, clock, lastPopped, cacheVars, serverVars, processorVars>>

\* generate.rs 134-147: a predict_noise call fails and the error is returned
PredictNoiseFails ==
    /\ lastOp.pc = "loop"
    /\ ~is_done(lastOp.scheduler)
    /\ lastOp' = [ReportProgress(lastOp) EXCEPT !.pc = "failed"]
    /\ UNCHANGED <<queue, clock, lastPopped, cacheVars, serverVars, processorVars>>

\* generate.rs 160-163: the loop ends and the final progress is reported
FinishDiffusion ==
    /\ lastOp.pc = "loop"
    /\ is_done(lastOp.scheduler)
    /\ lastOp' = [lastOp EXCEPT
                     !.pc = "done",
                     !.reports = Append(@, <<user_num_steps(lastOp.scheduler),
                                             user_num_steps(lastOp.scheduler)>>)]
    /\ UNCHANGED <<queue, clock, lastPopped, cacheVars, serverVars, processorVars>>

NextDiffusion ==
    \/ DiffusionStep
    \/ PredictNoiseFails
    \/ FinishDiffusion

SpecDiffusion == InitDiffusion /\ [][NextDiffusion]_vars

\* The step calls made at user step u
StepCallsAt(u) == { k \in 1..Len(lastOp.calls) : lastOp.calls[k].user_step = u }

\* C27: with the Heun scheduler and N user steps the diffusion loop makes,
\* before is_done() holds, exactly 2N step calls: for every user step
\* 0..N-1 a predictor call followed by a corrector call, each fed by one
\* guided model evaluation.
C27_HeunTwoStepsPerUserStep ==
    (lastOp.pc = "done" /\ lastOp.scheduler.type = "heun") =>
        /\ Len(lastOp.calls) = 2 * lastOp.scheduler.num_steps
        /\ \A u \in 0..(lastOp.scheduler.num_steps - 1) :
               /\ StepCallsAt(u) = {2 * u + 1, 2 * u + 2}
               /\ lastOp.calls[2 * u + 1].first_order
               /\ ~lastOp.calls[2 * u + 2].first_order
               /\ \A k \in StepCallsAt(u) : lastOp.calls[k].apply_cfg = 1

\* The denoiser evaluations made so far
RECURSIVE PredictNoiseCalls(_)
PredictNoiseCalls(calls) ==
    IF calls = <<>> THEN 0
    ELSE calls[1].predict_noise + PredictNoiseCalls(Tail(calls))

\* C29: an Euler or PingPong scheduler created with N steps is not done
\* after fewer than N step calls and is done after exactly N; the diffusion
\* loop evaluates the denoiser twice for every step call, never makes more
\* than N calls, and ends having made exactly N.
C29_EulerPingPongDoneAfterNSteps ==
    lastOp.scheduler.type \in {"euler", "pingpong"} =>
        LET n == lastOp.scheduler.num_steps
            calls == Len(lastOp.calls)
        IN  /\ lastOp.pc \in {"loop", "done"} =>
                   /\ calls < n => ~is_done(lastOp.scheduler)
                   /\ calls = n => is_done(lastOp.scheduler)
            /\ calls <= n
            /\ lastOp.pc # "panicked"
            /\ PredictNoiseCalls(lastOp.calls) = 2 * calls
            /\ \A k \in 1..calls : lastOp.calls[k].predict_noise = 2
            /\ lastOp.pc = "done" => calls = n

\* A PingPong run of the largest step count has ended.
C29_Witness ==
    /\ lastOp.pc = "done"
    /\ lastOp.scheduler.type = "pingpong"
    /\ lastOp.scheduler.num_steps = MaxInferenceSteps
    /\ Len(lastOp.calls) = MaxInferenceSteps
    /\ PredictNoiseCalls(lastOp.calls) = 2 * MaxInferenceSteps

----------------------------------------------------------------------------
\* Two PingPong schedulers stepped side by side, each fed arrays by its
\* caller (scheduler.rs tests::pingpong_scheduler_stochastic).

\* The arrays of the tests: all zeros or all ones, and a negated one
Full(size, v) == [i \in 1..size |-> v]
StepInputs(size) ==
    { <<Full(size, 0), Full(size, 1)>>, <<Full(size, 1), Full(size, -1)>> }

\* One scheduler with what it was created from, the inputs it was fed and
\* the noise it drew and the array it returned at each step
PingPongRun(scheduler, seed, frame_length, inputs, noise, outputs) ==
    [ scheduler |-> scheduler, seed |-> seed, frame_length |-> frame_length,
      inputs |-> inputs, noise |-> noise, outputs |-> outputs ]

PingPongRuns ==
    { PingPongRun(PingPongSchedulerNew(num_steps, seed), seed, frame_length,
                  <<>>, <<>>, <<>>) :
        num_steps \in 1..MaxPingPongSteps, seed \in DiffusionSeeds,
        frame_length \in FrameLengths }

InitPingPong ==
    /\ \E a \in PingPongRuns, b \in PingPongRuns :
           lastOp = [op |-> "PingPongScheduler::new", a |-> a, b |-> b]
    /\ queue = <<>>
    /\ clock = 0
    /\ lastPopped = [p \in JobPriority |-> 0]
    /\ cache = TrackCacheNew
    /\ accessed = <<>>
    /\ ServerUnused
    /\ ProcessorUnused

\* One step call on one of the two schedulers
PingPongStep(which, input) ==
    /\ ~is_done(lastOp[which].scheduler)
    /\ LET run == lastOp[which]
           r   == pingpong_step(run.scheduler, input[1], input[2])
       IN  lastOp' = [lastOp EXCEPT
                         !.op = "step",
                         ![which] = [run EXCEPT
                                        !.scheduler = r.scheduler,
                                        !.inputs = Append(@, input),
                                        !.noise = Append(@, r.noise),
                                        !.outputs = Append(@, r.out)]]
    /\ UNCHANGED <<queue, clock, lastPopped, cacheVars, serverVars, processorVars>>

NextPingPong ==
    \E which \in {"a", "b"} :
        \E input \in StepInputs(lastOp[which].frame_length) :
            PingPongStep(which, input)

SpecPingPong == InitPingPong /\ [][NextPingPong]_vars

----------------------------------------------------------------------------
\* The driver loop of generate.rs over every step count a request may ask
\* for, with the model evaluations left out: while !is_done(), timestep()
\* is read and step() is called.

\* rpc/types.rs validate: inference_steps outside 1..200 is refused
MAX_INFERENCE_STEPS == 200

DriverState(at, scheduler) ==
    [op |-> "driver", pc |-> at, scheduler |-> scheduler]

InitDriver ==
    /\ \E type \in SchedulerTypes, num_steps \in 1..MAX_INFERENCE_STEPS,
          seed \in DiffusionSeeds :
           lastOp = DriverState("loop", create_scheduler(type, num_steps, seed))
    /\ queue = <<>>
    /\ clock = 0
    /\ lastPopped = [p \in JobPriority |-> 0]
    /\ cache = TrackCacheNew
    /\ accessed = <<>>
    /\ ServerUnused
    /\ ProcessorUnused

\* generate.rs 122-160 without predict_noise and apply_cfg: an index at or
\* past the length of its vector panics
DriverStep ==
    /\ lastOp.pc = "loop"
    /\ ~is_done(lastOp.scheduler)
    /\ LET s == lastOp.scheduler
       IN  IF in_bounds(timestep_index(s)) /\ \A ix \in step_indexes(s) : in_bounds(ix)
           THEN lastOp' = [lastOp EXCEPT !.scheduler = advance(s, 1)]
           ELSE lastOp' = [lastOp EXCEPT !.pc = "panicked"]
    /\ UNCHANGED <<queue, clock, lastPopped, cacheVars, serverVars, processorVars>>

DriverDone ==
    /\ lastOp.pc = "loop"
    /\ is_done(lastOp.scheduler)
    /\ lastOp' = [lastOp EXCEPT !.pc = "done"]
    /\ UNCHANGED <<queue, clock, lastPopped, cacheVars, serverVars, processorVars>>

NextDriver ==
    \/ DriverStep
    \/ DriverDone

SpecDriver == InitDriver /\ [][NextDriver]_vars

\* C40: for all three schedulers and every step count N in 1..200, while
\* the loop guard !is_done() holds, timestep(), sigma() and step() never
\* index past the end of the sigma or timestep vectors: no call panics,
\* current_step is a valid index of timesteps and of sigmas, and
\* current_step + 1 is a valid index of sigmas.
C40_SchedulerIndexesInBounds ==
    LET s == lastOp.scheduler
    IN  /\ lastOp.pc # "panicked"
        /\ (lastOp.pc = "loop" /\ ~is_done(s)) =>
               /\ s.current_step < Len(s.timesteps)
               /\ s.current_step + 1 < Len(s.sigmas)
               /\ in_bounds(timestep_index(s))
               /\ \A ix \in step_indexes(s) : in_bounds(ix)

\* The Heun scheduler of 200 steps is about to make its last step call.
C40_Witness ==
    /\ lastOp.pc = "loop"
    /\ lastOp.scheduler.type = "heun"
    /\ lastOp.scheduler.num_steps = MAX_INFERENCE_STEPS
    /\ lastOp.scheduler.current_step = 2 * MAX_INFERENCE_STEPS - 2
    /\ ~is_done(lastOp.scheduler)
    /\ lastOp.scheduler.current_step + 1 = Len(lastOp.scheduler.sigmas) - 1

----------------------------------------------------------------------------
\* GenerateParams::validate applied to requests at and around every limit
\* it checks (rpc/types.rs tests::generate_params_validate_*).

ValidatePrompts ==
    {"", OneCharPrompt, "jazz piano", Prompt1000, LongPrompt, AccentedPrompt}
ValidateDurations == {4, 5, 120, 121, 240, 241}
ValidateSteps == {None, Some(0), Some(1), Some(200), Some(201)}
ValidateScales == {None, Some(9), Some(10), Some(300), Some(301)}
ValidateSchedulers ==
    {None, Some("euler"), Some("Heun"), Some("pingpong"), Some("unknown")}

ValidateOp(op, params, backend, result) ==
    [op |-> op, params |-> params, backend |-> backend, result |-> result]

ValidateInputs ==
    { GenerateParams(TRUE, prompt, duration_sec, None, "Normal", None, steps,
                     scheduler, scale) :
        prompt \in ValidatePrompts, duration_sec \in ValidateDurations,
        steps \in ValidateSteps, scheduler \in ValidateSchedulers,
        scale \in ValidateScales }

\* The request and the backend it is validated for are chosen at the start;
\* no result yet.
InitValidate ==
    /\ \E params \in ValidateInputs, backend \in Backend :
           lastOp = ValidateOp("params", params, backend, Ok(None))
    /\ queue = <<>>
    /\ clock = 0
    /\ lastPopped = [p \in JobPriority |-> 0]
    /\ cache = TrackCacheNew
    /\ accessed = <<>>
    /\ ServerUnused
    /\ ProcessorUnused

Validate ==
    /\ lastOp.op = "params"
    /\ lastOp' = ValidateOp("validate", lastOp.params, lastOp.backend,
                            validate(lastOp.params, lastOp.backend))
    /\ UNCHANGED <<queue, clock, lastPopped, cacheVars, serverVars, processorVars>>

NextValidate == Validate

SpecValidate == InitValidate /\ [][NextValidate]_vars

\* The number of characters of a prompt
prompt_chars(prompt) ==
    IF prompt = AccentedPrompt THEN 600 ELSE prompt_len(prompt)

\* The checks of the protocol, in its order, with the error code of each
ValidationChecks(params, backend) ==
    << <<prompt_chars(params.prompt) \in 1..1000, -32006>>,
       <<params.duration_sec \in 5..(IF backend = "musicgen" THEN 120 ELSE 240),
         -32005>>,
       <<backend = "ace_step" /\ params.inference_steps # None
            => params.inference_steps[1] \in 1..200, -32009>>,
       <<backend = "ace_step" /\ params.guidance_scale # None
            => params.guidance_scale[1] \in 10..300, -32010>>,
       <<backend = "ace_step" /\ params.scheduler # None
            => params.scheduler[1] \in {"euler", "heun", "pingpong",
                                         "Euler", "Heun", "PingPong"}, -32011>> >>

\* C23: validate accepts exactly the requests that pass every check (prompt
\* of 1..1000 characters, duration within the backend's range and, for
\* ACE-Step, steps, guidance scale and scheduler within theirs when given);
\* a request it rejects gets the code of the first check that fails, in the
\* order prompt, duration, steps, guidance, scheduler.
C23_ValidateAcceptsExactly ==
    lastOp.op = "validate" =>
        LET checks == ValidationChecks(lastOp.params, lastOp.backend)
            failed == {i \in 1..Len(checks) : ~checks[i][1]}
        IN  /\ lastOp.result.ok <=> failed = {}
            /\ ~lastOp.result.ok =>
                   /\ failed # {}
                   /\ \E i \in failed :
                          /\ \A k \in failed : i <= k
                          /\ lastOp.result.body.code = checks[i][2]

----------------------------------------------------------------------------
\* The cache driven through its public interface: a cache made by
\* with_capacity, then any sequence of get, put, remove, evict_lru and clear.

Keys == 1..MaxKeys

\* tracks.rs tests::make_track, created_at being the time it is called
make_track(id, created_at) ==
    [ track_id      |-> id,
      created_at    |-> created_at,
      path          |-> <<"/path/to", id, ".wav">>,
      prompt        |-> "test prompt",
      duration_cs   |-> 1000,
      seed          |-> 12345,
      model_version |-> "musicgen-small-fp16-v1" ]

CacheOp(op, key, hit) == [op |-> op, key |-> key, hit |-> hit]

InitCache ==
    /\ \E c \in 0..MaxCapacity : cache = with_capacity(c)
    /\ accessed = [k \in Keys |-> 0]
    /\ clock = 0
    /\ lastOp = CacheOp("none", 0, FALSE)
    /\ queue = <<>>
    /\ lastPopped = [p \in JobPriority |-> 0]
    /\ ServerUnused
    /\ ProcessorUnused

CGet(k) ==
    /\ clock < MaxInstants
    /\ LET r == get(cache, k, clock + 1)
       IN  /\ cache' = r.cache
           /\ lastOp' = CacheOp("get", k, r.track # None)
           /\ accessed' = IF contains(cache, k)
                          THEN [accessed EXCEPT ![k] = clock + 1]
                          ELSE accessed
    /\ clock' = clock + 1
    /\ UNCHANGED <<queueVars, serverVars, processorVars>>

CPut(k) ==
    /\ clock < MaxInstants
    /\ cache' = put(cache, make_track(k, clock + 1), clock + 1)
    /\ lastOp' = CacheOp("put", k, contains(cache, k))
    /\ accessed' = [accessed EXCEPT ![k] = clock + 1]
    /\ clock' = clock + 1
    /\ UNCHANGED <<queueVars, serverVars, processorVars>>

CRemove(k) ==
    /\ LET r == remove(cache, k)
       IN  /\ cache' = r.cache
           /\ lastOp' = CacheOp("remove", k, r.track # None)
    /\ UNCHANGED <<clock, accessed, queueVars, serverVars, processorVars>>

CEvictLru ==
    /\ LET r == evict_lru(cache)
       IN  /\ cache' = r.cache
           /\ lastOp' = CacheOp("evict_lru",
                                IF r.track = None THEN 0 ELSE r.track[1].track_id,
                                r.track # None)
    /\ UNCHANGED <<clock, accessed, queueVars, serverVars, processorVars>>

CClear ==
    /\ cache' = clear(cache)
    /\ lastOp' = CacheOp("clear", 0, FALSE)
    /\ UNCHANGED <<clock, accessed, queueVars, serverVars, processorVars>>

NextCache ==
    \/ \E k \in Keys : CGet(k)
    \/ \E k \in Keys : CPut(k)
    \/ \E k \in Keys : CRemove(k)
    \/ CEvictLru
    \/ CClear

SpecCache == InitCache /\ [][NextCache]_vars

----------------------------------------------------------------------------
\* Properties of the cache (SpecCache).

\* C5: a cache created with capacity C never holds more than C entries.
C5_CacheWithinCapacity == cache_len(cache) <= cache.max_entries

\* A step in which put stored a key that was not in the cache, the cache
\* holding max_entries entries or more.
PutNewKeyWhenFull ==
    /\ lastOp'.op = "put"
    /\ clock' # clock
    /\ ~contains(cache, lastOp'.key)
    /\ cache_len(cache) >= cache.max_entries

\* C6: a put of a new key into a full cache evicts exactly one entry, the one
\* whose last put or get is the oldest (a get counts as an access).
C6_PutEvictsLeastRecentlyAccessed ==
    [][PutNewKeyWhenFull =>
        \E victim \in DOMAIN cache.tracks :
            /\ DOMAIN cache'.tracks =
                   (DOMAIN cache.tracks \ {victim}) \cup {lastOp'.key}
            /\ \A k \in DOMAIN cache.tracks : accessed[victim] <= accessed[k]]_vars

\* A step in which put stored a key that was already in the cache
PutKnownKey ==
    /\ lastOp'.op = "put"
    /\ clock' # clock
    /\ contains(cache, lastOp'.key)

\* C30: a put whose key is already in the cache replaces that entry's track
\* and sets its access time to the time of the put; it evicts nothing and
\* leaves the number of entries and every other entry as they were, also
\* when the cache holds max_entries entries or more.
C30_PutKnownKeyReplacesInPlace ==
    [][PutKnownKey =>
        LET key == lastOp'.key
        IN  /\ DOMAIN cache'.tracks = DOMAIN cache.tracks
            /\ cache_len(cache') = cache_len(cache)
            /\ \A k \in DOMAIN cache.tracks \ {key} :
                   cache'.tracks[k] = cache.tracks[k]
            /\ cache'.tracks[key].track = make_track(key, clock')
            /\ cache'.tracks[key].track # cache.tracks[key].track
            /\ cache'.tracks[key].last_accessed = clock'
            /\ cache'.tracks[key].last_accessed > cache.tracks[key].last_accessed
            /\ cache'.max_entries = cache.max_entries]_vars

\* A full cache of two entries or more has just taken a put of a key it
\* held, and that key was not the least recently used one.
C30_Witness ==
    /\ lastOp.op = "put"
    /\ lastOp.hit
    /\ cache.max_entries >= 2
    /\ cache_len(cache) = cache.max_entries
    /\ cache.tracks[lastOp.key].track.created_at = clock
    /\ cache.tracks[lastOp.key].last_accessed = clock
    /\ \E k \in DOMAIN cache.tracks :
           /\ k # lastOp.key
           /\ cache.tracks[k].track.created_at < cache.tracks[k].last_accessed

----------------------------------------------------------------------------
\* Properties of the queue (SpecQueue).

\* A step in which add was called: add is the only operation that is handed
\* a freshly created job.
AddCalled == clock' # clock

\* C1: add succeeds exactly when the queue holds fewer than MAX_QUEUE_SIZE
\* jobs before the call; the length never exceeds MAX_QUEUE_SIZE; an add on a
\* full queue returns QueueFullError with current_size = MAX_QUEUE_SIZE and
\* leaves the queue unchanged; after one pop_next from a full queue the next
\* add succeeds.
C1_AddSucceedsIffNotFull ==
    /\ [](Len(queue) <= MAX_QUEUE_SIZE)
    /\ [][AddCalled =>
            /\ lastOp'.op = "add"
            /\ lastOp'.ok = (Len(queue) < MAX_QUEUE_SIZE)
            /\ (lastOp'.ok => Len(queue') = Len(queue) + 1)
            /\ (Len(queue) = MAX_QUEUE_SIZE =>
                    /\ ~lastOp'.ok
                    /\ lastOp'.value = MAX_QUEUE_SIZE
                    /\ queue' = queue)
            /\ (lastOp.op = "pop" /\ lastOp.len_before = MAX_QUEUE_SIZE
                    => lastOp'.ok)]_vars

\* An add was just rejected by a queue of MAX_QUEUE_SIZE jobs.
C1_Witness ==
    /\ lastOp.op = "add"
    /\ ~lastOp.ok
    /\ lastOp.value = MAX_QUEUE_SIZE
    /\ Len(queue) = MAX_QUEUE_SIZE

\* C2: after every add or pop_next the job at index i has queue_position i.
C2_PositionsContiguous ==
    \A i \in 1..Len(queue) : queue[i].queue_position = Some(i - 1)

\* A high-priority job was just inserted in front of waiting jobs, which
\* had to be renumbered.
C2_Witness ==
    /\ lastOp.op = "add"
    /\ lastOp.ok
    /\ lastOp.priority = "High"
    /\ lastOp.value + 1 < Len(queue)

\* C3: the high-priority jobs form a prefix of the queue: no normal-priority
\* job is at a lower index than a high-priority job.
C3_HighPriorityPrefix ==
    \A i, j \in 1..Len(queue) :
        (i < j /\ queue[j].priority = "High") => queue[i].priority = "High"

\* A high-priority job was just admitted between an earlier high-priority job
\* and a normal-priority one.
C3_Witness ==
    /\ lastOp.op = "add"
    /\ lastOp.ok
    /\ lastOp.priority = "High"
    /\ lastOp.value >= 1
    /\ lastOp.value + 1 < Len(queue)
    /\ queue[lastOp.value + 2].priority = "Normal"

\* The state right after a successful add: the job sits at the returned index,
\* which for a high-priority job is the first index whose former occupant was
\* not high priority and for a normal job is the new last index.
AddPlacement ==
    (lastOp.op = "add" /\ lastOp.ok) =>
        /\ get_position(queue, lastOp.job_id) = Some(lastOp.value)
        /\ lastOp.value < Len(queue)
        /\ queue[lastOp.value + 1].job_id = lastOp.job_id
        /\ (lastOp.priority = "Normal" => lastOp.value = Len(queue) - 1)
        /\ (lastOp.priority = "High" =>
                /\ \A i \in 1..lastOp.value : queue[i].priority = "High"
                /\ (lastOp.value + 1 < Len(queue)
                        => queue[lastOp.value + 2].priority # "High"))

\* job_id is the admission order, so first-in-first-out within a class means
\* that the ids pop_next returns for one priority only grow.
PopIsFifo ==
    (lastOp'.op = "pop" /\ lastOp'.ok)
        => lastOp'.job_id > lastPopped[lastOp'.priority]

\* C4: within one priority class the queue is first-in-first-out: a
\* high-priority add inserts at, and returns, the first index whose occupant
\* is not high priority; a normal add appends at, and returns, the new last
\* index; the returned index equals get_position(job_id) right after the add;
\* of two jobs of the same priority the one admitted first is popped first.
C4_FifoWithinPriority ==
    /\ []AddPlacement
    /\ [][PopIsFifo]_vars

\* A normal job is popped after a high-priority job that was admitted later.
C4_Witness ==
    /\ lastOp.op = "pop"
    /\ lastOp.ok
    /\ lastOp.priority = "Normal"
    /\ lastPopped["High"] > lastOp.job_id
    /\ Len(queue) >= 1

====
